---- MODULE Spec2Model ----
(***************************************************************************)
(* Model of the live copy-on-write backup job of block/backup.c.           *)
(*                                                                         *)
(* Coroutines are cooperative: `cur` names the coroutine that is running,  *)
(* NoProc when the event loop is idle.  A coroutine runs from one          *)
(* suspension point to the next (qemu_co_queue_wait, bdrv_co_readv,        *)
(* bdrv_co_writev / bdrv_co_write_zeroes, block_job_sleep_ns,              *)
(* qemu_co_rwlock_wrlock) without being interleaved with another one.      *)
(* Each piece of straight-line code is an operator from a state record to  *)
(* a state record; an action starts a coroutine and runs its pieces (Run)  *)
(* up to the next suspension point or the next position of Stops.          *)
(*                                                                         *)
(* Process 0 is the sweep (backup_run); processes 1..MaxWrites are guest   *)
(* writes, each running backup_before_write_notify when the notifier is    *)
(* registered.                                                             *)
(***************************************************************************)
EXTENDS Integers, Sequences, FiniteSets, TLC

\* ------------------------------------------------------------------ bounds
MaxClusters == 2
MaxWrites == 2
TailSectors == 40
MaxEvents == 2

\* ---------------------------------------------------------- program constants
BACKUP_CLUSTER_BITS == 16
BDRV_SECTOR_SIZE == 512
ENOSPC == 28
EIO == 5
SLICE_TIME == 100000000

BACKUP_CLUSTER_SIZE == 2 ^ BACKUP_CLUSTER_BITS
BACKUP_SECTORS_PER_CLUSTER == BACKUP_CLUSTER_SIZE \div BDRV_SECTOR_SIZE

\* C integer division truncates toward zero.
CDiv(a, b) == IF a >= 0 THEN a \div b ELSE -((-a) \div b)
DIV_ROUND_UP(n, d) == CDiv(n + d - 1, d)
MIN(a, b) == IF a < b THEN a ELSE b

\* ------------------------------------------------------------------ inputs
Sweep == 0
NoProc == -1
Writers == 1..MaxWrites
Procs == {Sweep} \cup Writers

Errnos == {EIO, ENOSPC}
\* The arguments of backup_start: every policy occurs on each side, with and
\* without a speed limit, and with and without I/O status on the source.
Config(osrc, otgt, spd, ios) ==
    [on_source_error |-> osrc, on_target_error |-> otgt, speed |-> spd,
     iostatus_enabled |-> ios]
StartConfigs ==
    { Config("report", "report", 0, FALSE),
      Config("ignore", "stop", 0, FALSE),
      Config("stop", "ignore", BACKUP_CLUSTER_SIZE, TRUE),
      Config("enospc", "enospc", BACKUP_CLUSTER_SIZE, TRUE),
      Config("stop", "report", 0, FALSE),
      Config("enospc", "ignore", 0, FALSE) }

\* Device lengths in bytes: empty, a whole number of clusters, and one more
\* cluster that is short.
DevLens ==
    { 0,
      (MaxClusters - 1) * BACKUP_CLUSTER_SIZE,
      (MaxClusters - 1) * BACKUP_CLUSTER_SIZE + TailSectors * BDRV_SECTOR_SIZE }

\* The cluster indexes of a device of lenBytes bytes.
ClustersOf(lenBytes) ==
    0 .. (DIV_ROUND_UP(CDiv(lenBytes, BDRV_SECTOR_SIZE), BACKUP_SECTORS_PER_CLUSTER) - 1)

\* Cluster contents: all-zero data, the data present at job start ("A"),
\* data written by a guest after job start ("B").
\* The source at job start: "A" and all-zero clusters alternating.
InitialSource(lenBytes) ==
    [c \in ClustersOf(lenBytes) |-> IF c % 2 = 0 THEN "A" ELSE "zero"]
GuestData == "B"
Unwritten == "unwritten"


\* Guest write requests <<sector_num, nb_sectors>> that fit the device: one
\* inside each cluster, and one straddling the first cluster boundary.
GuestRequests(lenBytes) ==
    LET total == lenBytes \div BDRV_SECTOR_SIZE
        inside == { <<c * BACKUP_SECTORS_PER_CLUSTER + 3, 2>> : c \in ClustersOf(lenBytes) }
        straddle == { <<BACKUP_SECTORS_PER_CLUSTER - 8, 16>> }
    IN  { r \in inside \cup straddle : r[1] + r[2] <= total }



\* ------------------------------------------------------------------- state
VARIABLES
    devlen,            \* true length of the source device, bytes
    source,            \* source contents per cluster
    target,            \* target contents per cluster
    on_source_error,   \* BackupBlockJob.on_source_error
    on_target_error,   \* BackupBlockJob.on_target_error
    speed,             \* job->common.speed
    len,               \* job->common.len
    offset,            \* job->common.offset
    sectors_read,      \* BackupBlockJob.sectors_read
    cancelled,         \* block_job_is_cancelled
    paused,            \* block_job_is_paused
    completed,         \* the calls of block_job_completed: [called, ret, calls]
    bitmap,            \* BackupBlockJob.bitmap, one bit per cluster
    bitmap_state,      \* "none", "allocated", "freed"
    inflight_reqs,     \* BackupBlockJob.inflight_reqs, head first
    waitOn,            \* the CowRequest (by owner) whose wait_queue holds the coroutine
    readers,           \* flush_rwlock.reader
    writer,            \* flush_rwlock.writer
    notifier,          \* before_write is in bs->before_write_notifiers
    pc,                \* position of every coroutine
    cur,               \* the running coroutine
    cow,               \* locals of each coroutine's backup_do_cow invocation, the
                       \* I/O it has in flight (io: first sector, sectors), the
                       \* clusters it has waited for at the gate (waited) and the
                       \* buffers it has allocated and not freed (allocated)
    run,               \* locals of backup_run
    wr,                \* the guest write requests
    events             \* guest writes and failed I/O so far

vars == <<devlen, source, target, on_source_error, on_target_error, speed, len,
          offset, sectors_read, cancelled, paused, completed, bitmap, bitmap_state,
          inflight_reqs, waitOn, readers, writer, notifier, pc, cur, cow, run, wr,
          events>>

\* The state as a record, and the state a record describes.
St ==
    [devlen |-> devlen, source |-> source, target |-> target,
     on_source_error |-> on_source_error, on_target_error |-> on_target_error,
     speed |-> speed, len |-> len, offset |-> offset, sectors_read |-> sectors_read,
     cancelled |-> cancelled, paused |-> paused, completed |-> completed,
     bitmap |-> bitmap, bitmap_state |-> bitmap_state, inflight_reqs |-> inflight_reqs,
     waitOn |-> waitOn, readers |-> readers, writer |-> writer, notifier |-> notifier,
     pc |-> pc, cur |-> cur, cow |-> cow, run |-> run, wr |-> wr, events |-> events]

Install(s) ==
    \E t \in {s} :
        /\ devlen' = t.devlen /\ source' = t.source /\ target' = t.target
        /\ on_source_error' = t.on_source_error /\ on_target_error' = t.on_target_error
        /\ speed' = t.speed /\ len' = t.len /\ offset' = t.offset
        /\ sectors_read' = t.sectors_read /\ cancelled' = t.cancelled /\ paused' = t.paused
        /\ completed' = t.completed /\ bitmap' = t.bitmap /\ bitmap_state' = t.bitmap_state
        /\ inflight_reqs' = t.inflight_reqs /\ waitOn' = t.waitOn /\ readers' = t.readers
        /\ writer' = t.writer /\ notifier' = t.notifier /\ pc' = t.pc /\ cur' = t.cur
        /\ cow' = t.cow /\ run' = t.run /\ wr' = t.wr /\ events' = t.events

NoCow ==
    [sector_num |-> 0, nb_sectors |-> 0, start |-> 0, end |-> 0, total_sectors |-> 0,
     n |-> 0, ret |-> 0, bounce_buffer |-> FALSE, buf |-> Unwritten, op |-> "none",
     io |-> <<0, 0>>, waited |-> {}, allocated |-> 0]

\* delay_in is the delay the rate limiter will answer with, delay_ns the time
\* block_job_sleep_ns was called with.
NoRun ==
    [start |-> 0, end |-> 0, ret |-> 0, error_is_read |-> "uninit", exit |-> "none",
     delay_in |-> 0, delay_ns |-> 0]

NoWrite == [sector_num |-> 0, nb_sectors |-> 0, ret |-> 0, intercepted |-> FALSE]

Init ==
    /\ devlen \in DevLens
    /\ source = InitialSource(devlen)
    /\ target = [c \in ClustersOf(devlen) |-> Unwritten]
    /\ on_source_error = "report"
    /\ on_target_error = "report"
    /\ speed = 0
    /\ len = 0
    /\ offset = 0
    /\ sectors_read = 0
    /\ cancelled = FALSE
    /\ paused = FALSE
    /\ completed = [called |-> FALSE, ret |-> 0, calls |-> 0]
    /\ bitmap = <<>>
    /\ bitmap_state = "none"
    /\ inflight_reqs = <<>>
    /\ waitOn = [p \in Procs |-> NoProc]
    /\ readers = 0
    /\ writer = FALSE
    /\ notifier = FALSE
    /\ pc = [p \in Procs |-> IF p = Sweep THEN "nojob" ELSE "idle"]
    /\ cur = NoProc
    /\ cow = [p \in Procs |-> NoCow]
    /\ run = NoRun
    /\ wr = [i \in Writers |-> NoWrite]
    /\ events = 0

\* ------------------------------------------------------- environment inputs

\* A guest write or a failing I/O is drawn only while the budget lasts.
MayHappen(b) == b => events < MaxEvents
Happened(s, b) == [s EXCEPT !.events = IF b THEN @ + 1 ELSE @]

\* block_job_create: a job (TRUE), or NULL (FALSE).
block_job_create == BOOLEAN

\* bdrv_getlength(bs): the length in bytes, or a negative errno.
bdrv_getlength == {devlen, -EIO}

\* ratelimit_calculate_delay(&job->limit, job->sectors_read): no wait, or the
\* rest of the slice.
ratelimit_calculate_delay == {0, SLICE_TIME}

\* The results of bdrv_co_readv on the source and of bdrv_co_writev /
\* bdrv_co_write_zeroes on the target: 0, or a negative errno.
ReadResults == {0, -EIO}
WriteResults == {0, -ENOSPC}

\* ------------------------------------------------ in-flight request registry

\* Mutation: a request that begins at the same cluster is not seen as overlapping.
Overlaps_other_start(start, end, r) == end > r.start /\ start < r.end /\ start # r.start

\* The condition of wait_for_overlapping_requests for request r.
Overlaps(start, end, r) == end > r.start /\ start < r.end

\* QLIST_FOREACH from the head: the positions of the overlapping requests.
OverlapAt(reqs, start, end) ==
    { k \in 1..Len(reqs) : Overlaps(start, end, reqs[k]) }

Min(S) == CHOOSE x \in S : \A y \in S : x <= y

\* QLIST_REMOVE of p's request.
RemoveReq(reqs, p) ==
    LET F[k \in 0..Len(reqs)] ==
            IF k = 0 THEN <<>>
            ELSE IF reqs[k].owner # p THEN Append(F[k - 1], reqs[k]) ELSE F[k - 1]
    IN  F[Len(reqs)]

\* Mutation: only one of the coroutines queued on p's request is made runnable.
RestartAll_first_waiter(s, p) ==
    [q \in Procs |-> IF /\ s.waitOn[q] = p /\ s.pc[q] = "gate_wait"
                        /\ \A o \in Procs : (s.waitOn[o] = p /\ s.pc[o] = "gate_wait") => q <= o
                     THEN "gate_ready" ELSE s.pc[q]]

\* qemu_co_queue_restart_all: every coroutine queued on p's request is runnable.
RestartAll(s, p) ==
    [q \in Procs |-> IF s.waitOn[q] = p /\ s.pc[q] = "gate_wait"
                     THEN "gate_ready" ELSE s.pc[q]]

\* Mutation: the scan never finds an overlapping request.
wait_for_overlapping_requests_no_wait(s, p) ==
    [s EXCEPT !.pc[p] = "begin"]

\* One scan of wait_for_overlapping_requests: the coroutine suspends on the
\* first overlapping request, or goes on.
wait_for_overlapping_requests(s, p) ==
    LET hits == OverlapAt(s.inflight_reqs, s.cow[p].start, s.cow[p].end)
    IN  IF hits # {}
        THEN [s EXCEPT !.waitOn[p] = s.inflight_reqs[Min(hits)].owner,
                       !.cow[p].waited =
                           @ \cup { c \in s.cow[p].start .. (s.cow[p].end - 1) :
                                       /\ s.inflight_reqs[Min(hits)].start <= c
                                       /\ c < s.inflight_reqs[Min(hits)].end },
                       !.pc[p] = "gate_wait",
                       !.cur = NoProc]
        ELSE [s EXCEPT !.pc[p] = "begin"]

cow_request_begin(s, p) ==
    [s EXCEPT !.inflight_reqs =
                  <<[owner |-> p, start |-> s.cow[p].start, end |-> s.cow[p].end]>> \o @,
              !.pc[p] = "getlength"]

\* Mutation: the request is removed and its wait queue is not restarted.
cow_request_end_no_restart(s, p) ==
    [s EXCEPT !.inflight_reqs = RemoveReq(@, p)]

cow_request_end(s, p) ==
    [s EXCEPT !.inflight_reqs = RemoveReq(@, p),
              !.pc = RestartAll(s, p)]


\* ---------------------------------------------------------- backup_do_cow
\* The caller has stored sector_num and nb_sectors in cow[p] and set
\* pc[p] = "call".  error_is_read is non-NULL for the sweep only.

SetErrorIsRead(s, p, v) ==
    IF p = Sweep
    THEN [s EXCEPT !.run.error_is_read = IF v THEN "true" ELSE "false"]
    ELSE s

\* Mutation: the end of the range is rounded down.
do_cow_enter_end_rounded_down(s, p) ==
    [s EXCEPT !.readers = @ + 1,
              !.cow[p].start = CDiv(s.cow[p].sector_num, BACKUP_SECTORS_PER_CLUSTER),
              !.cow[p].end = CDiv(s.cow[p].sector_num + s.cow[p].nb_sectors,
                                  BACKUP_SECTORS_PER_CLUSTER),
              !.cow[p].ret = 0,
              !.cow[p].bounce_buffer = FALSE,
              !.pc[p] = "gate"]

\* Mutation: the range ends after the first cluster of the request.
do_cow_enter_first_cluster_only(s, p) ==
    [s EXCEPT !.readers = @ + 1,
              !.cow[p].start = CDiv(s.cow[p].sector_num, BACKUP_SECTORS_PER_CLUSTER),
              !.cow[p].end = CDiv(s.cow[p].sector_num, BACKUP_SECTORS_PER_CLUSTER) + 1,
              !.cow[p].ret = 0,
              !.cow[p].bounce_buffer = FALSE,
              !.pc[p] = "gate"]

\* qemu_co_rwlock_rdlock (the writer flag is clear whenever a coroutine can
\* get here), then the cluster range of the request.
do_cow_enter(s, p) ==
    [s EXCEPT !.readers = @ + 1,
              !.cow[p].start = CDiv(s.cow[p].sector_num, BACKUP_SECTORS_PER_CLUSTER),
              !.cow[p].end = DIV_ROUND_UP(s.cow[p].sector_num + s.cow[p].nb_sectors,
                                          BACKUP_SECTORS_PER_CLUSTER),
              !.cow[p].ret = 0,
              !.cow[p].bounce_buffer = FALSE,
              !.pc[p] = "gate"]

\* Mutation: a failed length query returns at once instead of going to out.
do_cow_getlength_return_early(s, p, l) ==
    IF l < 0
    THEN [SetErrorIsRead(s, p, TRUE) EXCEPT !.cow[p] = [NoCow EXCEPT !.ret = l],
                                            !.pc[p] = "ret"]
    ELSE [s EXCEPT !.cow[p].total_sectors = CDiv(l, BDRV_SECTOR_SIZE), !.pc[p] = "loop"]

\* total_sectors = bdrv_getlength(bs), with result l.
do_cow_getlength(s, p, l) ==
    IF l < 0
    THEN [SetErrorIsRead(s, p, TRUE) EXCEPT !.cow[p].ret = l, !.pc[p] = "out"]
    ELSE [s EXCEPT !.cow[p].total_sectors = CDiv(l, BDRV_SECTOR_SIZE), !.pc[p] = "loop"]

hbitmap_get(s, c) == c \in DOMAIN s.bitmap /\ s.bitmap[c] = 1

\* Mutation: a buffer is allocated for every cluster that is copied.
do_cow_loop_alloc_per_cluster(s, p) ==
    IF s.cow[p].start < s.cow[p].end
    THEN IF hbitmap_get(s, s.cow[p].start)
         THEN [s EXCEPT !.cow[p].start = @ + 1]
         ELSE [s EXCEPT !.cow[p].n = MIN(BACKUP_SECTORS_PER_CLUSTER,
                                         s.cow[p].total_sectors
                                           - s.cow[p].start * BACKUP_SECTORS_PER_CLUSTER),
                        !.cow[p].bounce_buffer = TRUE,
                        !.cow[p].allocated = @ + 1,
                        !.cow[p].io = <<s.cow[p].start * BACKUP_SECTORS_PER_CLUSTER,
                                        MIN(BACKUP_SECTORS_PER_CLUSTER,
                                            s.cow[p].total_sectors
                                              - s.cow[p].start * BACKUP_SECTORS_PER_CLUSTER)>>,
                        !.pc[p] = "read",
                        !.cur = NoProc]
    ELSE [s EXCEPT !.pc[p] = "out"]

\* Mutation: every cluster is read and written with the full cluster size.
do_cow_loop_full_cluster(s, p) ==
    IF s.cow[p].start < s.cow[p].end
    THEN IF hbitmap_get(s, s.cow[p].start)
         THEN [s EXCEPT !.cow[p].start = @ + 1]
         ELSE [s EXCEPT !.cow[p].n = BACKUP_SECTORS_PER_CLUSTER,
                        !.cow[p].bounce_buffer = TRUE,
                        !.cow[p].allocated = IF s.cow[p].bounce_buffer THEN @ ELSE @ + 1,
                        !.cow[p].io = <<s.cow[p].start * BACKUP_SECTORS_PER_CLUSTER,
                                        BACKUP_SECTORS_PER_CLUSTER>>,
                        !.pc[p] = "read",
                        !.cur = NoProc]
    ELSE [s EXCEPT !.pc[p] = "out"]

\* Mutation: a skipped cluster is published as progress.
do_cow_loop_count_skipped(s, p) ==
    IF s.cow[p].start < s.cow[p].end
    THEN IF hbitmap_get(s, s.cow[p].start)
         THEN [s EXCEPT !.cow[p].start = @ + 1,
                        !.sectors_read = @ + BACKUP_SECTORS_PER_CLUSTER,
                        !.offset = @ + BACKUP_CLUSTER_SIZE]
         ELSE [s EXCEPT !.cow[p].n = MIN(BACKUP_SECTORS_PER_CLUSTER,
                                         s.cow[p].total_sectors
                                           - s.cow[p].start * BACKUP_SECTORS_PER_CLUSTER),
                        !.cow[p].bounce_buffer = TRUE,
                        !.cow[p].allocated = IF s.cow[p].bounce_buffer THEN @ ELSE @ + 1,
                        !.cow[p].io = <<s.cow[p].start * BACKUP_SECTORS_PER_CLUSTER,
                                        MIN(BACKUP_SECTORS_PER_CLUSTER,
                                            s.cow[p].total_sectors
                                              - s.cow[p].start * BACKUP_SECTORS_PER_CLUSTER)>>,
                        !.pc[p] = "read",
                        !.cur = NoProc]
    ELSE [s EXCEPT !.pc[p] = "out"]

\* Mutation: a cluster is copied whether or not its bit is set.
do_cow_loop_no_skip(s, p) ==
    IF s.cow[p].start < s.cow[p].end
    THEN [s EXCEPT !.cow[p].n = MIN(BACKUP_SECTORS_PER_CLUSTER,
                                    s.cow[p].total_sectors
                                      - s.cow[p].start * BACKUP_SECTORS_PER_CLUSTER),
                   !.cow[p].bounce_buffer = TRUE,
                   !.cow[p].allocated = IF s.cow[p].bounce_buffer THEN @ ELSE @ + 1,
                   !.cow[p].io = <<s.cow[p].start * BACKUP_SECTORS_PER_CLUSTER,
                                   MIN(BACKUP_SECTORS_PER_CLUSTER,
                                       s.cow[p].total_sectors
                                         - s.cow[p].start * BACKUP_SECTORS_PER_CLUSTER)>>,
                   !.pc[p] = "read",
                   !.cur = NoProc]
    ELSE [s EXCEPT !.pc[p] = "out"]

\* The head of the per-cluster loop, up to the submission of the source read.
do_cow_loop(s, p) ==
    IF s.cow[p].start < s.cow[p].end
    THEN IF hbitmap_get(s, s.cow[p].start)
         THEN [s EXCEPT !.cow[p].start = @ + 1]
         ELSE [s EXCEPT !.cow[p].n = MIN(BACKUP_SECTORS_PER_CLUSTER,
                                         s.cow[p].total_sectors
                                           - s.cow[p].start * BACKUP_SECTORS_PER_CLUSTER),
                        !.cow[p].bounce_buffer = TRUE,
                        !.cow[p].allocated = IF s.cow[p].bounce_buffer THEN @ ELSE @ + 1,
                        !.cow[p].io = <<s.cow[p].start * BACKUP_SECTORS_PER_CLUSTER,
                                        MIN(BACKUP_SECTORS_PER_CLUSTER,
                                            s.cow[p].total_sectors
                                              - s.cow[p].start * BACKUP_SECTORS_PER_CLUSTER)>>,
                        !.pc[p] = "read",
                        !.cur = NoProc]
    ELSE [s EXCEPT !.pc[p] = "out"]

buffer_is_zero(data) == data = "zero"

\* Mutation: after a failed read the loop goes on with the next cluster.
do_cow_read_done_continue(s, p, r) ==
    IF r < 0
    THEN [SetErrorIsRead(s, p, TRUE) EXCEPT !.cow[p].ret = r,
                                            !.cow[p].start = @ + 1,
                                            !.pc[p] = "loop",
                                            !.cur = p]
    ELSE [s EXCEPT !.cow[p].ret = r,
                   !.cow[p].buf = s.source[s.cow[p].start],
                   !.cow[p].op = IF buffer_is_zero(s.source[s.cow[p].start])
                                 THEN "write_zeroes" ELSE "writev",
                   !.cow[p].io = <<s.cow[p].start * BACKUP_SECTORS_PER_CLUSTER, s.cow[p].n>>,
                   !.pc[p] = "write"]

\* Mutation: the buffer is written with a normal write whatever it holds.
do_cow_read_done_always_writev(s, p, r) ==
    IF r < 0
    THEN [SetErrorIsRead(s, p, TRUE) EXCEPT !.cow[p].ret = r, !.pc[p] = "out", !.cur = p]
    ELSE [s EXCEPT !.cow[p].ret = r,
                   !.cow[p].buf = s.source[s.cow[p].start],
                   !.cow[p].op = "writev",
                   !.cow[p].io = <<s.cow[p].start * BACKUP_SECTORS_PER_CLUSTER, s.cow[p].n>>,
                   !.pc[p] = "write"]

\* bdrv_co_readv returns r; on success the target write is submitted.
do_cow_read_done(s, p, r) ==
    IF r < 0
    THEN [SetErrorIsRead(s, p, TRUE) EXCEPT !.cow[p].ret = r, !.pc[p] = "out", !.cur = p]
    ELSE [s EXCEPT !.cow[p].ret = r,
                   !.cow[p].buf = s.source[s.cow[p].start],
                   !.cow[p].op = IF buffer_is_zero(s.source[s.cow[p].start])
                                 THEN "write_zeroes" ELSE "writev",
                   !.cow[p].io = <<s.cow[p].start * BACKUP_SECTORS_PER_CLUSTER, s.cow[p].n>>,
                   !.pc[p] = "write"]

\* Mutation: a failed target write is tagged as a read-side failure.
do_cow_write_done_tagged_read(s, p, r) ==
    IF r < 0
    THEN [SetErrorIsRead(s, p, TRUE) EXCEPT !.cow[p].ret = r, !.pc[p] = "out", !.cur = p]
    ELSE [s EXCEPT !.cow[p].ret = r,
                   !.target[s.cow[p].start] = IF s.cow[p].op = "write_zeroes"
                                              THEN "zero" ELSE s.cow[p].buf,
                   !.pc[p] = "set",
                   !.cur = p]

\* Mutation: a failed target write goes on to hbitmap_set.
do_cow_write_done_set_on_failure(s, p, r) ==
    IF r < 0
    THEN [SetErrorIsRead(s, p, FALSE) EXCEPT !.cow[p].ret = r, !.pc[p] = "set", !.cur = p]
    ELSE [s EXCEPT !.cow[p].ret = r,
                   !.target[s.cow[p].start] = IF s.cow[p].op = "write_zeroes"
                                              THEN "zero" ELSE s.cow[p].buf,
                   !.pc[p] = "set",
                   !.cur = p]

\* bdrv_co_write_zeroes / bdrv_co_writev returns r.
do_cow_write_done(s, p, r) ==
    IF r < 0
    THEN [SetErrorIsRead(s, p, FALSE) EXCEPT !.cow[p].ret = r, !.pc[p] = "out", !.cur = p]
    ELSE [s EXCEPT !.cow[p].ret = r,
                   !.target[s.cow[p].start] = IF s.cow[p].op = "write_zeroes"
                                              THEN "zero" ELSE s.cow[p].buf,
                   !.pc[p] = "set",
                   !.cur = p]

\* hbitmap_set and the progress counters, then the next loop iteration.
do_cow_set(s, p) ==
    [s EXCEPT !.bitmap[s.cow[p].start] = 1,
              !.sectors_read = @ + s.cow[p].n,
              !.offset = @ + s.cow[p].n * BDRV_SECTOR_SIZE,
              !.cow[p].start = @ + 1,
              !.cow[p].n = 0,
              !.cow[p].buf = Unwritten,
              !.cow[p].op = "none",
              !.cow[p].io = <<0, 0>>,
              !.pc[p] = "loop"]

\* Mutation: a failed invocation resets the bits of its whole range.
do_cow_out_rollback(s, p) ==
    LET e == cow_request_end(s, p)
        first == CDiv(s.cow[p].sector_num, BACKUP_SECTORS_PER_CLUSTER)
    IN  [e EXCEPT !.bitmap = [c \in DOMAIN @ |->
                                IF s.cow[p].ret < 0 /\ c >= first /\ c < s.cow[p].end
                                THEN 0 ELSE @[c]],
                  !.cow[p] = [NoCow EXCEPT !.ret = s.cow[p].ret,
                                       !.allocated = IF s.cow[p].bounce_buffer
                                                     THEN s.cow[p].allocated - 1
                                                     ELSE s.cow[p].allocated],
                  !.readers = @ - 1,
                  !.pc[p] = "ret"]

\* out: qemu_vfree, cow_request_end, qemu_co_rwlock_unlock, return ret.
do_cow_out(s, p) ==
    LET e == cow_request_end(s, p)
    IN  [e EXCEPT !.cow[p] = [NoCow EXCEPT !.ret = s.cow[p].ret,
                                       !.allocated = IF s.cow[p].bounce_buffer
                                                     THEN s.cow[p].allocated - 1
                                                     ELSE s.cow[p].allocated],
                  !.readers = @ - 1,
                  !.pc[p] = "ret"]

\* ------------------------------------------------------------ error policy

\* block_job_error_action: the action for policy on_err and errno error.
block_job_error_action(on_err, error) ==
    CASE on_err = "enospc" -> IF error = ENOSPC THEN "stop" ELSE "report"
      [] on_err = "stop"   -> "stop"
      [] on_err = "report" -> "report"
      [] on_err = "ignore" -> "ignore"

\* Mutation: the two policies are swapped.
backup_error_action_swapped(s, read, error) ==
    IF read
    THEN block_job_error_action(s.on_target_error, error)
    ELSE block_job_error_action(s.on_source_error, error)

\* backup_error_action: the policy of the side that failed.
backup_error_action(s, read, error) ==
    IF read
    THEN block_job_error_action(s.on_source_error, error)
    ELSE block_job_error_action(s.on_target_error, error)

\* The values a read of error_is_read can produce: it is an uninitialized
\* local until backup_do_cow writes it.
ErrorIsReadValues ==
    IF run.error_is_read = "uninit" THEN BOOLEAN ELSE {run.error_is_read = "true"}

\* ------------------------------------------------- backup_start, backup_run

\* Mutation: the validation tests for the policy stop only.
backup_start_job_stop_only(s, cfg, job, l) ==
    IF cfg.on_source_error = "stop" /\ ~cfg.iostatus_enabled
    THEN [s EXCEPT !.pc[Sweep] = "rejected"]
    ELSE IF ~job
    THEN [s EXCEPT !.pc[Sweep] = "create_failed"]
    ELSE [s EXCEPT !.on_source_error = cfg.on_source_error,
                   !.on_target_error = cfg.on_target_error,
                   !.speed = cfg.speed,
                   !.len = l,
                   !.pc[Sweep] = "run_init",
                   !.cur = Sweep]

\* backup_start with arguments cfg; block_job_create returns a job or NULL
\* (job is FALSE), bdrv_getlength returns l.
backup_start_job(s, cfg, job, l) ==
    IF cfg.on_source_error \in {"stop", "enospc"} /\ ~cfg.iostatus_enabled
    THEN [s EXCEPT !.pc[Sweep] = "rejected"]
    ELSE IF ~job
    THEN [s EXCEPT !.pc[Sweep] = "create_failed"]
    ELSE [s EXCEPT !.on_source_error = cfg.on_source_error,
                   !.on_target_error = cfg.on_target_error,
                   !.speed = cfg.speed,
                   !.len = l,
                   !.pc[Sweep] = "run_init",
                   !.cur = Sweep]

\* From the entry of the coroutine to the head of the sweep loop;
\* bdrv_getlength returns l.
backup_run_init(s, l) ==
    LET end == DIV_ROUND_UP(CDiv(l, BDRV_SECTOR_SIZE), BACKUP_SECTORS_PER_CLUSTER)
    IN  [s EXCEPT !.run = [NoRun EXCEPT !.end = end],
                  !.bitmap = [c \in 0..(end - 1) |-> 0],
                  !.bitmap_state = "allocated",
                  !.inflight_reqs = <<>>,
                  !.readers = 0,
                  !.writer = FALSE,
                  !.notifier = TRUE,
                  !.pc[Sweep] = "loop_top"]

\* Mutation: the rate limiter is consulted whatever the speed is.
backup_run_loop_top_always_limited(s) ==
    IF s.run.start < s.run.end
    THEN IF s.cancelled
         THEN [s EXCEPT !.run.exit = "cancelled", !.pc[Sweep] = "exit"]
         ELSE [s EXCEPT !.sectors_read = 0,
                        !.run.error_is_read = "uninit",
                        !.run.delay_ns = s.run.delay_in,
                        !.pc[Sweep] = "sleep",
                        !.cur = NoProc]
    ELSE [s EXCEPT !.run.exit = "complete", !.pc[Sweep] = "exit"]

\* Mutation: the loop body runs once before the loop condition is tested.
backup_run_loop_top_body_first(s) ==
    IF s.run.start < s.run.end \/ s.run.start = 0
    THEN IF s.cancelled
         THEN [s EXCEPT !.run.exit = "cancelled", !.pc[Sweep] = "exit"]
         ELSE [s EXCEPT !.sectors_read = IF s.speed # 0 THEN 0 ELSE @,
                        !.run.error_is_read = "uninit",
                        !.run.delay_ns = IF s.speed # 0 THEN s.run.delay_in ELSE 0,
                        !.pc[Sweep] = "sleep",
                        !.cur = NoProc]
    ELSE [s EXCEPT !.run.exit = "complete", !.pc[Sweep] = "exit"]

\* The loop condition, the first cancellation check and block_job_sleep_ns.
backup_run_loop_top(s) ==
    IF s.run.start < s.run.end
    THEN IF s.cancelled
         THEN [s EXCEPT !.run.exit = "cancelled", !.pc[Sweep] = "exit"]
         ELSE [s EXCEPT !.sectors_read = IF s.speed # 0 THEN 0 ELSE @,
                        !.run.error_is_read = "uninit",
                        !.run.delay_ns = IF s.speed # 0 THEN s.run.delay_in ELSE 0,
                        !.pc[Sweep] = "sleep",
                        !.cur = NoProc]
    ELSE [s EXCEPT !.run.exit = "complete", !.pc[Sweep] = "exit"]

\* Mutation: no cancellation check after the sleep.
backup_run_after_sleep_unchecked(s) ==
    [s EXCEPT !.cow[Sweep].sector_num = s.run.start * BACKUP_SECTORS_PER_CLUSTER,
              !.cow[Sweep].nb_sectors = 1,
              !.run.delay_ns = 0,
              !.pc[Sweep] = "call",
              !.cur = Sweep]

\* block_job_sleep_ns returns; the second cancellation check; the call of
\* backup_do_cow for one sector of cluster start.
backup_run_after_sleep(s) ==
    IF s.cancelled
    THEN [s EXCEPT !.run.exit = "cancelled", !.run.delay_ns = 0,
                   !.pc[Sweep] = "exit", !.cur = Sweep]
    ELSE [s EXCEPT !.cow[Sweep].sector_num = s.run.start * BACKUP_SECTORS_PER_CLUSTER,
                   !.cow[Sweep].nb_sectors = 1,
                   !.run.delay_ns = 0,
                   !.pc[Sweep] = "call",
                   !.cur = Sweep]

\* Mutation: after the action stop the sweep goes on with the next cluster.
backup_run_after_cow_advance_on_stop(s, read) ==
    LET ret == s.cow[Sweep].ret
        action == backup_error_action(s, read, -ret)
        r == [s EXCEPT !.run.ret = ret, !.run.error_is_read = "uninit",
                       !.cow[Sweep] = NoCow]
    IN  IF ret < 0
        THEN IF action = "report"
             THEN [r EXCEPT !.run.exit = "report", !.pc[Sweep] = "exit"]
             ELSE [r EXCEPT !.paused = (@ \/ action = "stop"),
                            !.run.start = IF action = "stop" THEN @ + 1 ELSE (@ - 1) + 1,
                            !.pc[Sweep] = "loop_top"]
        ELSE [r EXCEPT !.run.start = @ + 1, !.pc[Sweep] = "loop_top"]

\* Mutation: the retry path leaves out start--.
backup_run_after_cow_no_decrement(s, read) ==
    LET ret == s.cow[Sweep].ret
        action == backup_error_action(s, read, -ret)
        r == [s EXCEPT !.run.ret = ret, !.run.error_is_read = "uninit",
                       !.cow[Sweep] = NoCow]
    IN  IF ret < 0
        THEN IF action = "report"
             THEN [r EXCEPT !.run.exit = "report", !.pc[Sweep] = "exit"]
             ELSE [r EXCEPT !.paused = (@ \/ action = "stop"),
                            !.run.start = @ + 1,
                            !.pc[Sweep] = "loop_top"]
        ELSE [r EXCEPT !.run.start = @ + 1, !.pc[Sweep] = "loop_top"]

\* Mutation: the action report retries the cluster like the other actions.
backup_run_after_cow_retry_on_report(s, read) ==
    LET ret == s.cow[Sweep].ret
        r == [s EXCEPT !.run.ret = ret, !.run.error_is_read = "uninit",
                       !.cow[Sweep] = NoCow]
    IN  IF ret < 0
        THEN [r EXCEPT !.run.start = (@ - 1) + 1, !.pc[Sweep] = "loop_top"]
        ELSE [r EXCEPT !.run.start = @ + 1, !.pc[Sweep] = "loop_top"]

\* backup_do_cow has returned to the sweep; error_is_read reads as `read`.
backup_run_after_cow(s, read) ==
    LET ret == s.cow[Sweep].ret
        action == backup_error_action(s, read, -ret)
        r == [s EXCEPT !.run.ret = ret, !.run.error_is_read = "uninit",
                       !.cow[Sweep] = NoCow]
    IN  IF ret < 0
        THEN IF action = "report"
             THEN [r EXCEPT !.run.exit = "report", !.pc[Sweep] = "exit"]
             ELSE [r EXCEPT !.paused = (@ \/ action = "stop"),
                            !.run.start = (@ - 1) + 1,
                            !.pc[Sweep] = "loop_top"]
        ELSE [r EXCEPT !.run.start = @ + 1, !.pc[Sweep] = "loop_top"]

\* Mutation: a cancelled job returns from backup_run right after the loop.
backup_run_loop_exit_return_on_cancel(s) ==
    IF s.run.exit = "cancelled"
    THEN [s EXCEPT !.notifier = FALSE, !.pc[Sweep] = "done", !.cur = NoProc]
    ELSE IF s.writer \/ s.readers # 0
         THEN [s EXCEPT !.notifier = FALSE, !.pc[Sweep] = "wrlock_wait", !.cur = NoProc]
         ELSE [s EXCEPT !.notifier = FALSE, !.writer = TRUE, !.pc[Sweep] = "locked"]

\* Mutation: the lock is taken for writing without waiting for the readers.
backup_run_loop_exit_no_drain(s) ==
    [s EXCEPT !.notifier = FALSE, !.writer = TRUE, !.pc[Sweep] = "locked"]

\* notifier_with_return_remove, then qemu_co_rwlock_wrlock.
backup_run_loop_exit(s) ==
    IF s.writer \/ s.readers # 0
    THEN [s EXCEPT !.notifier = FALSE, !.pc[Sweep] = "wrlock_wait", !.cur = NoProc]
    ELSE [s EXCEPT !.notifier = FALSE, !.writer = TRUE, !.pc[Sweep] = "locked"]

\* The last reader's unlock has restarted the sweep, which rechecks the lock.
backup_run_wrlock_wake(s) ==
    [s EXCEPT !.writer = TRUE, !.pc[Sweep] = "locked", !.cur = Sweep]

\* qemu_co_rwlock_unlock, hbitmap_free, bdrv_delete(target),
\* block_job_completed(ret).
backup_run_complete(s) ==
    [s EXCEPT !.writer = FALSE,
              !.bitmap_state = "freed",
              !.completed = [called |-> TRUE, ret |-> s.run.ret, calls |-> @.calls + 1],
              !.pc[Sweep] = "done",
              !.cur = NoProc]

\* ------------------------------------------------------------ guest writes

ClustersTouched(sector_num, nb_sectors) ==
    CDiv(sector_num, BACKUP_SECTORS_PER_CLUSTER)
      .. (DIV_ROUND_UP(sector_num + nb_sectors, BACKUP_SECTORS_PER_CLUSTER) - 1)

\* A guest write arrives: the before-write notifiers run before the write is
\* submitted to the source.
guest_write(s, i, req) ==
    LET w == [s EXCEPT !.wr[i] = [sector_num |-> req[1], nb_sectors |-> req[2],
                                  ret |-> 0, intercepted |-> s.notifier]]
    IN  IF s.notifier
        THEN [w EXCEPT !.pc[i] = "notify", !.cur = i]
        ELSE [w EXCEPT !.pc[i] = "submit"]

\* backup_before_write_notify calls backup_do_cow(req->bs, req->sector_num,
\* req->nb_sectors, NULL).
backup_before_write_notify(s, i) ==
    [s EXCEPT !.cow[i].sector_num = s.wr[i].sector_num,
              !.cow[i].nb_sectors = s.wr[i].nb_sectors,
              !.pc[i] = "call"]

\* Mutation: the interceptor reports success whatever backup_do_cow returned.
backup_before_write_notify_return_swallow(s, i) ==
    [s EXCEPT !.wr[i].ret = 0,
              !.cow[i] = NoCow,
              !.pc[i] = "notified"]

\* backup_before_write_notify returns backup_do_cow's value.
backup_before_write_notify_return(s, i) ==
    [s EXCEPT !.wr[i].ret = s.cow[i].ret,
              !.cow[i] = NoCow,
              !.pc[i] = "notified"]

\* The notifier list has returned: a negative value fails the guest write,
\* otherwise the write is submitted to the source.
notifier_with_return_list_notify_done(s, i) ==
    [s EXCEPT !.wr[i] = IF s.wr[i].ret < 0 THEN [NoWrite EXCEPT !.ret = s.wr[i].ret] ELSE @,
              !.pc[i] = IF s.wr[i].ret < 0 THEN "failed" ELSE "submit",
              !.cur = NoProc]

\* The guest write reaches the source.
apply_write(s, i) ==
    [s EXCEPT !.source = [c \in DOMAIN s.source |->
                            IF c \in ClustersTouched(s.wr[i].sector_num, s.wr[i].nb_sectors)
                            THEN GuestData ELSE s.source[c]],
              !.wr[i] = NoWrite,
              !.pc[i] = "written"]


\* ------------------------------------------------------------- scheduling

\* The straight-line piece of code at the running coroutine's position.
Step(s) ==
    LET p == s.cur
        at == s.pc[p]
    IN  CASE at = "notify"    -> backup_before_write_notify(s, p)
          [] at = "notified"  -> notifier_with_return_list_notify_done(s, p)
          [] at = "call"      -> do_cow_enter(s, p)
          [] at = "gate"      -> wait_for_overlapping_requests(s, p)
          [] at = "begin"     -> cow_request_begin(s, p)
          [] at = "loop"      -> do_cow_loop(s, p)
          [] at = "set"       -> do_cow_set(s, p)
          [] at = "out"       -> do_cow_out(s, p)
          [] at = "loop_top"  -> backup_run_loop_top(s)
          [] at = "exit"      -> backup_run_loop_exit(s)

\* Positions where a running coroutine is observed: before a call whose
\* result is an input (bdrv_getlength), at backup_do_cow's return, and with
\* the flush lock held for writing.
Stops == {"run_init", "getlength", "ret", "locked"}

\* The coroutine runs to its next suspension point or observed position.
RECURSIVE Run(_)
Run(s) ==
    IF s.cur = NoProc \/ s.pc[s.cur] \in Stops
    THEN s
    ELSE CHOOSE r \in { Run(t) : t \in {Step(s)} } : TRUE

\* ---------------------------------------------------------------- actions

backup_start(cfg) ==
    /\ cur = NoProc /\ pc[Sweep] = "nojob"
    /\ \E job \in block_job_create, l \in bdrv_getlength :
         /\ MayHappen(l < 0)
         /\ Install(Run(Happened(backup_start_job(St, cfg, job, l),
                                 l < 0 /\ backup_start_job(St, cfg, job, l).pc[Sweep] = "run_init")))

\* The rate limiter will answer d; the answer is used at most once.
WithDelay(s, d) == [s EXCEPT !.run.delay_in = d]

RunInit ==
    /\ cur = Sweep /\ pc[Sweep] = "run_init"
    /\ \E l \in bdrv_getlength, d \in ratelimit_calculate_delay :
         /\ MayHappen(l < 0)
         /\ Install(WithDelay(Run(WithDelay(Happened(backup_run_init(St, l), l < 0), d)), 0))

\* block_job_sleep_ns returns: the job is not paused, or was cancelled.
AfterSleep ==
    /\ cur = NoProc /\ pc[Sweep] = "sleep"
    /\ ~paused
    /\ Install(Run(backup_run_after_sleep(St)))

AfterCow ==
    /\ cur = Sweep /\ pc[Sweep] = "ret"
    /\ \E read \in ErrorIsReadValues, d \in ratelimit_calculate_delay :
         Install(WithDelay(Run(WithDelay(backup_run_after_cow(St, read), d)), 0))

WrlockWake ==
    /\ cur = NoProc /\ pc[Sweep] = "wrlock_wait"
    /\ ~writer /\ readers = 0
    /\ Install(Run(backup_run_wrlock_wake(St)))

Complete ==
    /\ cur = Sweep /\ pc[Sweep] = "locked"
    /\ Install(Run(backup_run_complete(St)))

JobRunning == pc[Sweep] \notin {"nojob", "rejected", "create_failed", "done"}

\* block_job_cancel: sets the flag and resumes a paused job.
Cancel ==
    /\ cur = NoProc /\ JobRunning /\ ~cancelled
    /\ Install([St EXCEPT !.cancelled = TRUE, !.paused = FALSE])

\* block_job_resume
Resume ==
    /\ cur = NoProc /\ JobRunning /\ paused
    /\ Install([St EXCEPT !.paused = FALSE])

\* A coroutine restarted by cow_request_end runs again and rescans.
GateWake(p) ==
    /\ cur = NoProc /\ pc[p] = "gate_ready"
    /\ Install(Run([St EXCEPT !.waitOn[p] = NoProc, !.pc[p] = "gate", !.cur = p]))

DoCowGetLength(p) ==
    /\ cur = p /\ pc[p] = "getlength"
    /\ \E l \in bdrv_getlength :
         /\ MayHappen(l < 0)
         /\ Install(Run(Happened(do_cow_getlength(St, p, l), l < 0)))

DoCowReadDone(p) ==
    /\ cur = NoProc /\ pc[p] = "read"
    /\ \E r \in ReadResults :
         /\ MayHappen(r < 0)
         /\ Install(Run(Happened(do_cow_read_done(St, p, r), r < 0)))

DoCowWriteDone(p) ==
    /\ cur = NoProc /\ pc[p] = "write"
    /\ \E r \in WriteResults :
         /\ MayHappen(r < 0)
         /\ Install(Run(Happened(do_cow_write_done(St, p, r), r < 0)))

GuestWrite(i, req) ==
    /\ cur = NoProc /\ JobRunning /\ pc[i] = "idle"
    /\ i = 1 \/ pc[i - 1] # "idle"
    /\ MayHappen(TRUE)
    /\ Install(Run(Happened(guest_write(St, i, req), TRUE)))

NotifyReturn(i) ==
    /\ cur = i /\ pc[i] = "ret"
    /\ Install(Run(backup_before_write_notify_return(St, i)))

ApplyWrite(i) ==
    /\ cur = NoProc /\ pc[i] = "submit"
    /\ Install(apply_write(St, i))

\* ------------------------------------------------------------ specification

Next ==
    \/ \E cfg \in StartConfigs : backup_start(cfg)
    \/ RunInit
    \/ AfterSleep
    \/ AfterCow
    \/ WrlockWake
    \/ Complete
    \/ Cancel
    \/ Resume
    \/ \E p \in Procs : GateWake(p)
    \/ \E p \in Procs : DoCowGetLength(p)
    \/ \E p \in Procs : DoCowReadDone(p)
    \/ \E p \in Procs : DoCowWriteDone(p)
    \/ \E i \in Writers, req \in GuestRequests(devlen) : GuestWrite(i, req)
    \/ \E i \in Writers : NotifyReturn(i)
    \/ \E i \in Writers : ApplyWrite(i)

Spec == Init /\ [][Next]_vars


\* A source whose clusters are all zero.
ZeroSource(lenBytes) == [c \in ClustersOf(lenBytes) |-> "zero"]

\* The state before backup_start, on a source with mixed contents or on an
\* all-zero source.
InitAnySource ==
    /\ devlen \in DevLens
    /\ source \in {InitialSource(devlen), ZeroSource(devlen)}
    /\ target = [c \in ClustersOf(devlen) |-> Unwritten]
    /\ on_source_error = "report"
    /\ on_target_error = "report"
    /\ speed = 0
    /\ len = 0
    /\ offset = 0
    /\ sectors_read = 0
    /\ cancelled = FALSE
    /\ paused = FALSE
    /\ completed = [called |-> FALSE, ret |-> 0, calls |-> 0]
    /\ bitmap = <<>>
    /\ bitmap_state = "none"
    /\ inflight_reqs = <<>>
    /\ waitOn = [p \in Procs |-> NoProc]
    /\ readers = 0
    /\ writer = FALSE
    /\ notifier = FALSE
    /\ pc = [p \in Procs |-> IF p = Sweep THEN "nojob" ELSE "idle"]
    /\ cur = NoProc
    /\ cow = [p \in Procs |-> NoCow]
    /\ run = NoRun
    /\ wr = [i \in Writers |-> NoWrite]
    /\ events = 0

AnySourceSpec == InitAnySource /\ [][Next]_vars


\* ------------------------------------------------- src/backup.c (earlier version)
\* The earlier version of the job: no in-flight registry and no error policy;
\* the block layer calls the job's before_write hook for every guest write
\* while the job exists (notifier stands for that), and the sweep reaches
\* backup_do_cow through bdrv_co_backup.  The length queries succeed here.

BITS_PER_LONG == 64

legacy_backup_get_bitmap(s, cluster_num) == s.bitmap[cluster_num] = 1

\* qemu_co_rwlock_rdlock and the cluster range of the request.
legacy_backup_do_cow_enter(s, p) ==
    [s EXCEPT !.readers = @ + 1,
              !.cow[p].start = CDiv(s.cow[p].sector_num, BACKUP_SECTORS_PER_CLUSTER),
              !.cow[p].end = CDiv(s.cow[p].sector_num + s.cow[p].nb_sectors
                                    + BACKUP_SECTORS_PER_CLUSTER - 1,
                                  BACKUP_SECTORS_PER_CLUSTER),
              !.cow[p].ret = 0,
              !.cow[p].bounce_buffer = FALSE,
              !.pc[p] = "loop"]

\* The head of the loop: a set bit is skipped; otherwise the bit is set at
\* once and the whole cluster is read.
legacy_backup_do_cow_loop(s, p) ==
    IF s.cow[p].start < s.cow[p].end
    THEN IF legacy_backup_get_bitmap(s, s.cow[p].start)
         THEN [s EXCEPT !.cow[p].start = @ + 1]
         ELSE [s EXCEPT !.bitmap[s.cow[p].start] = 1,
                        !.cow[p].n = BACKUP_SECTORS_PER_CLUSTER,
                        !.cow[p].bounce_buffer = TRUE,
                        !.cow[p].allocated = IF s.cow[p].bounce_buffer THEN @ ELSE @ + 1,
                        !.cow[p].io = <<s.cow[p].start * BACKUP_SECTORS_PER_CLUSTER,
                                        BACKUP_SECTORS_PER_CLUSTER>>,
                        !.pc[p] = "read",
                        !.cur = NoProc]
    ELSE [s EXCEPT !.pc[p] = "out"]

\* bdrv_co_readv returns r; a cluster that is not zero is written.
legacy_backup_do_cow_read_done(s, p, r) ==
    IF r < 0
    THEN [s EXCEPT !.cow[p].ret = r, !.pc[p] = "out", !.cur = p]
    ELSE IF buffer_is_zero(s.source[s.cow[p].start])
    THEN [s EXCEPT !.cow[p].ret = r,
                   !.sectors_read = @ + BACKUP_SECTORS_PER_CLUSTER,
                   !.cow[p].start = @ + 1,
                   !.cow[p].io = <<0, 0>>,
                   !.pc[p] = "loop",
                   !.cur = p]
    ELSE [s EXCEPT !.cow[p].ret = r,
                   !.sectors_read = @ + BACKUP_SECTORS_PER_CLUSTER,
                   !.cow[p].buf = s.source[s.cow[p].start],
                   !.cow[p].op = "writev",
                   !.pc[p] = "write"]

\* bdrv_co_writev returns r.
legacy_backup_do_cow_write_done(s, p, r) ==
    IF r < 0
    THEN [s EXCEPT !.cow[p].ret = r, !.pc[p] = "out", !.cur = p]
    ELSE [s EXCEPT !.cow[p].ret = r,
                   !.target[s.cow[p].start] = s.cow[p].buf,
                   !.cow[p].start = @ + 1,
                   !.cow[p].buf = Unwritten,
                   !.cow[p].op = "none",
                   !.cow[p].io = <<0, 0>>,
                   !.pc[p] = "loop",
                   !.cur = p]

\* out: qemu_vfree, qemu_co_rwlock_unlock, return ret.
legacy_backup_do_cow_out(s, p) ==
    [s EXCEPT !.cow[p] = [NoCow EXCEPT !.ret = s.cow[p].ret,
                                       !.allocated = IF s.cow[p].bounce_buffer
                                                     THEN s.cow[p].allocated - 1
                                                     ELSE s.cow[p].allocated],
              !.readers = @ - 1,
              !.pc[p] = "ret"]

\* backup_before_write calls backup_do_cow(bs, sector_num, nb_sectors).
legacy_backup_before_write(s, i) ==
    [s EXCEPT !.cow[i].sector_num = s.wr[i].sector_num,
              !.cow[i].nb_sectors = s.wr[i].nb_sectors,
              !.pc[i] = "call"]

\* backup_before_write returns backup_do_cow's value.
legacy_backup_before_write_return(s, i) ==
    [s EXCEPT !.wr[i].ret = s.cow[i].ret,
              !.cow[i] = NoCow,
              !.pc[i] = "notified"]

\* backup_start; block_job_create returns a job or NULL, bdrv_getlength
\* returns l.
legacy_backup_start(s, spd, job, l) ==
    IF ~job
    THEN [s EXCEPT !.pc[Sweep] = "create_failed"]
    ELSE LET bitmap_size ==
                 CDiv(CDiv(l, BDRV_SECTOR_SIZE) + BACKUP_SECTORS_PER_CLUSTER * BITS_PER_LONG - 1,
                      BACKUP_SECTORS_PER_CLUSTER * BITS_PER_LONG)
         IN  [s EXCEPT !.speed = spd,
                       !.len = l,
                       !.readers = 0,
                       !.writer = FALSE,
                       !.bitmap = [c \in 0 .. (bitmap_size * BITS_PER_LONG - 1) |-> 0],
                       !.bitmap_state = "allocated",
                       !.notifier = TRUE,
                       !.pc[Sweep] = "run_init",
                       !.cur = Sweep]

\* From the entry of backup_run to the head of its loop.
legacy_backup_run_init(s, l) ==
    [s EXCEPT !.run = [NoRun EXCEPT !.end = CDiv(CDiv(l, BDRV_SECTOR_SIZE)
                                                   + BACKUP_SECTORS_PER_CLUSTER - 1,
                                                 BACKUP_SECTORS_PER_CLUSTER)],
              !.pc[Sweep] = "loop_top"]

\* The loop condition, the first cancellation check and block_job_sleep_ns.
legacy_backup_run_loop_top(s) ==
    IF s.run.start < s.run.end
    THEN IF s.cancelled
         THEN [s EXCEPT !.run.ret = -1, !.run.exit = "cancelled", !.pc[Sweep] = "exit"]
         ELSE [s EXCEPT !.sectors_read = IF s.speed # 0 THEN 0 ELSE @,
                        !.run.delay_ns = IF s.speed # 0 THEN s.run.delay_in ELSE 0,
                        !.pc[Sweep] = "sleep",
                        !.cur = NoProc]
    ELSE [s EXCEPT !.run.exit = "complete", !.pc[Sweep] = "exit"]

\* block_job_sleep_ns returns; the second cancellation check, the bitmap
\* test and bdrv_co_backup for one sector of cluster start.
legacy_backup_run_after_sleep(s) ==
    IF s.cancelled
    THEN [s EXCEPT !.run.ret = -1, !.run.exit = "cancelled", !.run.delay_ns = 0,
                   !.pc[Sweep] = "exit", !.cur = Sweep]
    ELSE IF legacy_backup_get_bitmap(s, s.run.start)
    THEN [s EXCEPT !.run.start = @ + 1, !.run.delay_ns = 0,
                   !.pc[Sweep] = "loop_top", !.cur = Sweep]
    ELSE [s EXCEPT !.cow[Sweep].sector_num = s.run.start * BACKUP_SECTORS_PER_CLUSTER,
                   !.cow[Sweep].nb_sectors = 1,
                   !.run.delay_ns = 0,
                   !.pc[Sweep] = "call",
                   !.cur = Sweep]

\* bdrv_co_backup has returned: any error ends the loop.
legacy_backup_run_after_cow(s) ==
    LET ret == s.cow[Sweep].ret
        r == [s EXCEPT !.run.ret = ret, !.cow[Sweep] = NoCow]
    IN  IF ret < 0
        THEN [r EXCEPT !.run.exit = "report", !.pc[Sweep] = "exit"]
        ELSE [r EXCEPT !.offset = @ + BACKUP_CLUSTER_SIZE,
                       !.run.start = @ + 1,
                       !.pc[Sweep] = "loop_top"]

\* qemu_co_rwlock_wrlock after the loop.
legacy_backup_run_loop_exit(s) ==
    IF s.writer \/ s.readers # 0
    THEN [s EXCEPT !.pc[Sweep] = "wrlock_wait", !.cur = NoProc]
    ELSE [s EXCEPT !.writer = TRUE, !.pc[Sweep] = "locked"]

\* qemu_co_rwlock_unlock, g_free(job->bitmap), bdrv_delete(target),
\* block_job_completed(ret), after which the job's hooks are gone.
legacy_backup_run_complete(s) ==
    [s EXCEPT !.writer = FALSE,
              !.bitmap_state = "freed",
              !.completed = [called |-> TRUE, ret |-> s.run.ret, calls |-> @.calls + 1],
              !.notifier = FALSE,
              !.pc[Sweep] = "done",
              !.cur = NoProc]

LegacyStep(s) ==
    LET p == s.cur
        at == s.pc[p]
    IN  CASE at = "notify"    -> legacy_backup_before_write(s, p)
          [] at = "notified"  -> notifier_with_return_list_notify_done(s, p)
          [] at = "call"      -> legacy_backup_do_cow_enter(s, p)
          [] at = "loop"      -> legacy_backup_do_cow_loop(s, p)
          [] at = "out"       -> legacy_backup_do_cow_out(s, p)
          [] at = "loop_top"  -> legacy_backup_run_loop_top(s)
          [] at = "exit"      -> legacy_backup_run_loop_exit(s)

LegacyStops == {"run_init", "ret", "locked"}

RECURSIVE LegacyRun(_)
LegacyRun(s) ==
    IF s.cur = NoProc \/ s.pc[s.cur] \in LegacyStops
    THEN s
    ELSE CHOOSE r \in { LegacyRun(t) : t \in {LegacyStep(s)} } : TRUE

LegacyStart(spd) ==
    /\ cur = NoProc /\ pc[Sweep] = "nojob"
    /\ \E job \in block_job_create :
         Install(LegacyRun(legacy_backup_start(St, spd, job, devlen)))

LegacyRunInit ==
    /\ cur = Sweep /\ pc[Sweep] = "run_init"
    /\ \E d \in ratelimit_calculate_delay :
         Install(WithDelay(LegacyRun(WithDelay(legacy_backup_run_init(St, devlen), d)), 0))

LegacyAfterSleep ==
    /\ cur = NoProc /\ pc[Sweep] = "sleep"
    /\ \E d \in ratelimit_calculate_delay :
         Install(WithDelay(LegacyRun(WithDelay(legacy_backup_run_after_sleep(St), d)), 0))

LegacyAfterCow ==
    /\ cur = Sweep /\ pc[Sweep] = "ret"
    /\ \E d \in ratelimit_calculate_delay :
         Install(WithDelay(LegacyRun(WithDelay(legacy_backup_run_after_cow(St), d)), 0))

LegacyWrlockWake ==
    /\ cur = NoProc /\ pc[Sweep] = "wrlock_wait"
    /\ ~writer /\ readers = 0
    /\ Install(LegacyRun(backup_run_wrlock_wake(St)))

LegacyComplete ==
    /\ cur = Sweep /\ pc[Sweep] = "locked"
    /\ Install(LegacyRun(legacy_backup_run_complete(St)))

LegacyCancel ==
    /\ cur = NoProc /\ JobRunning /\ ~cancelled
    /\ Install([St EXCEPT !.cancelled = TRUE])

LegacyReadDone(p) ==
    /\ cur = NoProc /\ pc[p] = "read"
    /\ \E r \in ReadResults :
         /\ MayHappen(r < 0)
         /\ Install(LegacyRun(Happened(legacy_backup_do_cow_read_done(St, p, r), r < 0)))

LegacyWriteDone(p) ==
    /\ cur = NoProc /\ pc[p] = "write"
    /\ \E r \in WriteResults :
         /\ MayHappen(r < 0)
         /\ Install(LegacyRun(Happened(legacy_backup_do_cow_write_done(St, p, r), r < 0)))

LegacyGuestWrite(i, req) ==
    /\ cur = NoProc /\ JobRunning /\ pc[i] = "idle"
    /\ i = 1 \/ pc[i - 1] # "idle"
    /\ MayHappen(TRUE)
    /\ Install(LegacyRun(Happened(guest_write(St, i, req), TRUE)))

LegacyBeforeWriteReturn(i) ==
    /\ cur = i /\ pc[i] = "ret"
    /\ Install(LegacyRun(legacy_backup_before_write_return(St, i)))

LegacyApplyWrite(i) ==
    /\ cur = NoProc /\ pc[i] = "submit"
    /\ Install(apply_write(St, i))

LegacyNext ==
    \/ \E spd \in {0, BACKUP_CLUSTER_SIZE} : LegacyStart(spd)
    \/ LegacyRunInit
    \/ LegacyAfterSleep
    \/ LegacyAfterCow
    \/ LegacyWrlockWake
    \/ LegacyComplete
    \/ LegacyCancel
    \/ \E p \in Procs : LegacyReadDone(p)
    \/ \E p \in Procs : LegacyWriteDone(p)
    \/ \E i \in Writers, req \in GuestRequests(devlen) : LegacyGuestWrite(i, req)
    \/ \E i \in Writers : LegacyBeforeWriteReturn(i)
    \/ \E i \in Writers : LegacyApplyWrite(i)

LegacySpec == Init /\ [][LegacyNext]_vars


\* The steps of the job's coroutines and the returns of the I/O requests and
\* length queries they have issued, as opposed to what the guest and the
\* user do.
Progress ==
    \/ RunInit
    \/ AfterCow
    \/ WrlockWake
    \/ Complete
    \/ \E p \in Procs : GateWake(p) \/ DoCowGetLength(p) \/ DoCowReadDone(p) \/ DoCowWriteDone(p)
    \/ \E i \in Writers : NotifyReturn(i)

\* The event loop goes on running the coroutines that can run, and issued
\* requests return.
Fairness == WF_vars(Progress)

FairSpec == Spec /\ Fairness


\* ------------------------------------------------------ properties: helpers

\* The contents of the source when the job started.
Snapshot == InitialSource(devlen)

\* Coroutine p is inside backup_do_cow (it has been called and has not returned).
InDoCow(p) ==
    pc[p] \in {"call", "gate", "gate_wait", "gate_ready", "begin", "getlength", "loop",
               "read", "write", "set", "out"}

BitmapLive == bitmap_state = "allocated"

\* Every cluster of the request of guest write i has its bit set.
BitsSetFor(i) ==
    \A c \in ClustersTouched(wr[i].sector_num, wr[i].nb_sectors) :
        c \in DOMAIN bitmap /\ bitmap[c] = 1

\* In this step the write of guest i reaches the source.
Applies(i) == pc[i] = "submit" /\ pc'[i] = "written"

\* --------------------------------------------------------------------- C1
\* C1 (as claimed): in every reachable state, every cluster whose bit is set
\* holds on the target the contents the source had when the job started.
C1_Original ==
    BitmapLive => \A c \in DOMAIN bitmap : bitmap[c] = 1 => target[c] = Snapshot[c]

\* C1 (amended): while the before-write notifier is registered, every cluster
\* whose bit is set holds on the target the contents the source had at job
\* start; and when the sweep loop has run through all the clusters, every
\* cluster of the bitmap holds them, also after the notifier is removed.
C1_SnapshotWhileIntercepted ==
    /\ (BitmapLive /\ notifier) =>
          \A c \in DOMAIN bitmap : bitmap[c] = 1 => target[c] = Snapshot[c]
    /\ run.exit = "complete" =>
          \A c \in DOMAIN bitmap : bitmap[c] = 1 /\ target[c] = Snapshot[c]

\* A guest has overwritten a cluster whose original contents are on the
\* target, with the notifier still registered.
C1_Witness ==
    /\ notifier
    /\ \E c \in DOMAIN bitmap :
          bitmap[c] = 1 /\ source[c] = GuestData /\ target[c] = Snapshot[c]

\* --------------------------------------------------------------------- C2
\* C2 (as claimed): every guest write that reaches the source before
\* block_job_completed is called finds the bit of every cluster it touches set.
C2_Original ==
    [][\A i \in Writers : (Applies(i) /\ ~completed.called) => BitsSetFor(i)]_vars

\* C2 (amended): every guest write that arrived while the before-write
\* notifier was registered finds, when it reaches the source, the bit of every
\* cluster it touches set.
C2_InterceptedWritesFindBitsSet ==
    [][\A i \in Writers : (Applies(i) /\ wr[i].intercepted) => BitsSetFor(i)]_vars

\* An intercepted guest write is about to reach the source, after its own
\* interception has copied a cluster.
C2_Witness ==
    \E i \in Writers :
        /\ pc[i] = "submit" /\ wr[i].intercepted /\ BitsSetFor(i)
        /\ pc[Sweep] = "sleep" /\ run.start = 0

\* --------------------------------------------------------------------- C3
\* C3: the cluster ranges registered in inflight_reqs are pairwise
\* non-overlapping, every invocation with I/O in flight is covered by its own
\* registered range, and no two invocations have I/O in flight for the same
\* cluster.
C3_InflightDisjoint ==
    /\ \A j, k \in 1..Len(inflight_reqs) :
          j < k => ~Overlaps(inflight_reqs[j].start, inflight_reqs[j].end, inflight_reqs[k])
    /\ \A p \in Procs :
          pc[p] \in {"read", "write"} =>
              \E k \in 1..Len(inflight_reqs) :
                  /\ inflight_reqs[k].owner = p
                  /\ inflight_reqs[k].start <= cow[p].start
                  /\ cow[p].start < inflight_reqs[k].end
    /\ \A p, q \in Procs :
          (p # q /\ pc[p] \in {"read", "write"} /\ pc[q] \in {"read", "write"})
              => cow[p].start # cow[q].start

\* Two disjoint requests are in flight while a third invocation, whose range
\* overlaps one of them, waits at the gate.
C3_Witness ==
    /\ Len(inflight_reqs) = 2
    /\ \E p \in Procs :
          /\ pc[p] = "gate_wait"
          /\ OverlapAt(inflight_reqs, cow[p].start, cow[p].end) # {}

\* --------------------------------------------------------------------- C4
\* C4: a bit of the bitmap goes from 0 to 1 only in the step in which the
\* target write of that cluster, issued by the invocation that sets the bit,
\* returns success and has put the data read on the target; while the write is
\* pending or when it fails the bit stays 0; a bit that is 1 is not set again.
C4_BitSetAfterTargetWrite ==
    [][\A c \in DOMAIN bitmap \cap DOMAIN bitmap' :
          bitmap'[c] # bitmap[c] =>
              /\ bitmap[c] = 0 /\ bitmap'[c] = 1
              /\ \E p \in Procs :
                    /\ pc[p] = "write" /\ cow[p].start = c
                    /\ cow'[p].ret >= 0
                    /\ target'[c] = IF cow[p].op = "write_zeroes" THEN "zero" ELSE cow[p].buf
                    /\ \A q \in Procs \ {p} :
                          ~(pc[q] \in {"read", "write"} /\ cow[q].start = c)]_vars

\* A guest write over two clusters has returned from the interceptor with a
\* target write error: the cluster written successfully has its bit set, the
\* cluster whose write failed has not.
C4_Witness ==
    \E i \in Writers :
        /\ pc[i] = "ret" /\ cow[i].ret = -ENOSPC
        /\ ClustersTouched(wr[i].sector_num, wr[i].nb_sectors) = {0, 1}
        /\ bitmap[0] = 1 /\ target[0] = Snapshot[0]
        /\ bitmap[1] = 0 /\ target[1] = Unwritten

\* --------------------------------------------------------------------- C5
\* C5: from its allocation until it is freed, no bit of the bitmap goes from
\* 1 to 0, whatever fails or is retried, paused or cancelled.
C5_BitsNeverCleared ==
    [][(BitmapLive /\ bitmap_state' = "allocated") =>
          \A c \in DOMAIN bitmap : bitmap[c] = 1 => (c \in DOMAIN bitmap' /\ bitmap'[c] = 1)]_vars

\* The sweep is retrying a cluster after an error, the job has been
\* cancelled, and a bit set earlier is still set.
C5_Witness ==
    /\ BitmapLive /\ cancelled
    /\ run.ret < 0 /\ pc[Sweep] = "sleep"
    /\ \E c \in DOMAIN bitmap : bitmap[c] = 1

\* --------------------------------------------------------------------- C6
\* C6 (as claimed): when block_job_completed has been called with 0, every
\* cluster of the source has its bit set (bits are never cleared, so a bit
\* clear at completion was clear when the sweep loop exited).
C6_Original ==
    (completed.called /\ completed.ret = 0) =>
        \A c \in ClustersOf(devlen) : c \in DOMAIN bitmap /\ bitmap[c] = 1

\* --------------------------------------------------------------------- C7
\* C7 (as claimed): when the sweep loop was left by a cancellation check, the
\* result passed to block_job_completed is neither 0 nor the code of an I/O
\* error.
C7_Original ==
    (completed.called /\ run.exit = "cancelled") =>
        (completed.ret # 0 /\ completed.ret \notin {-e : e \in Errnos})

\* --------------------------------------------------------------------- C8
\* C8: once cancellation is requested with the sweep outside backup_do_cow
\* (asleep, or between the return of backup_do_cow and the next sleep), the
\* sweep never enters backup_do_cow again, and every later change of the
\* target or of a bit is made by the copy an interceptor has in flight for
\* that cluster.
C8_NoSweepCopyAfterCancel ==
    [][(cancelled /\ ~InDoCow(Sweep)) =>
          /\ ~InDoCow(Sweep)'
          /\ \A c \in DOMAIN bitmap :
                (bitmap'[c] # bitmap[c] \/ target'[c] # target[c]) =>
                    \E i \in Writers : pc[i] = "write" /\ cow[i].start = c]_vars

\* The loop was left by cancellation before the sweep had copied anything:
\* the cluster an interceptor copied has its bit set, the other does not.
C8_Witness ==
    /\ run.exit = "cancelled" /\ run.start = 0
    /\ DOMAIN bitmap = {0, 1}
    /\ bitmap[0] = 0 /\ target[0] = Unwritten
    /\ bitmap[1] = 1 /\ target[1] = Snapshot[1]

\* --------------------------------------------------------------------- C9
\* C9: an intercepted guest write runs backup_do_cow once, for exactly the
\* sectors of the write; the value backup_do_cow returns is the value the
\* write gets; a negative value fails the write, which never reaches the
\* source; the interceptor does not pause the job (no error action is taken)
\* and does not call backup_do_cow a second time.
C9_InterceptorPassesStatus ==
    /\ [](\A i \in Writers :
            InDoCow(i) =>
                /\ cow[i].sector_num = wr[i].sector_num
                /\ cow[i].nb_sectors = wr[i].nb_sectors
                /\ (pc[i] \in {"gate_wait", "gate_ready", "getlength", "read", "write"} =>
                       /\ cow[i].start \in ClustersTouched(wr[i].sector_num, wr[i].nb_sectors)
                       /\ \A c \in ClustersTouched(wr[i].sector_num, wr[i].nb_sectors) :
                              c < cow[i].end))
    /\ [][\A i \in Writers :
            /\ (pc[i] = "ret" /\ pc'[i] # "ret") =>
                  /\ wr'[i].ret = cow[i].ret
                  /\ pc'[i] = IF cow[i].ret < 0 THEN "failed" ELSE "submit"
                  /\ paused' = paused
                  /\ source' = source
            /\ pc[i] = "failed" => (pc'[i] = "failed" /\ wr'[i] = wr[i])
            /\ (InDoCow(i)' /\ ~InDoCow(i)) => pc[i] = "idle"
            /\ Applies(i) => wr[i].ret = 0
            /\ (paused' /\ ~paused) => pc[Sweep] = "ret"]_vars

\* A copy made for a guest write failed on the target under the policy stop:
\* the write has failed with that error, the source is untouched and the job
\* is not paused.
C9_Witness ==
    \E i \in Writers :
        /\ pc[i] = "failed" /\ wr[i].ret = -ENOSPC
        /\ on_target_error = "stop" /\ ~paused
        /\ source = Snapshot

\* -------------------------------------------------------------------- C10
\* C10: when backup_do_cow returns an error to the sweep and the error action
\* is report, the same step leaves the loop with that error as the result;
\* from then on the sweep is never inside backup_do_cow, block_job_completed
\* gets that error, and if no guest write has arrived the bits from the
\* failing cluster on are 0.
C10_ReportEndsSweep ==
    /\ [](run.exit = "report" =>
            /\ pc[Sweep] \in {"wrlock_wait", "locked", "done"}
            /\ run.ret < 0
            /\ completed.called => completed.ret = run.ret
            /\ (\A i \in Writers : pc[i] = "idle") =>
                   \A c \in DOMAIN bitmap : c >= run.start => bitmap[c] = 0)
    /\ [][(/\ pc[Sweep] = "ret" /\ cow[Sweep].ret < 0
           /\ backup_error_action(St, run.error_is_read = "true", -cow[Sweep].ret) = "report") =>
              /\ run'.exit = "report"
              /\ run'.ret = cow[Sweep].ret
              /\ pc'[Sweep] \in {"wrlock_wait", "locked"}]_vars

\* With no guest write, the sweep copied cluster 0, the target write of
\* cluster 1 failed under the policy report, and the job has completed with
\* that error.
C10_Witness ==
    /\ completed.called /\ completed.ret = -ENOSPC
    /\ run.exit = "report" /\ run.start = 1
    /\ \A i \in Writers : pc[i] = "idle"
    /\ bitmap[0] = 1 /\ bitmap[1] = 0

\* -------------------------------------------------------------------- C11
\* The error action the sweep takes for the error backup_do_cow has just
\* returned to it.
SweepAction == backup_error_action(St, run.error_is_read = "true", -cow[Sweep].ret)

\* C11: every backup_do_cow invocation of the sweep is for one sector of
\* cluster run.start; when it returns an error and the action is not report,
\* run.start is unchanged (also when it is 0) and the sweep goes to the sleep
\* of another iteration unless the job is cancelled; run.start only ever
\* advances by one, on a successful return, so every cluster behind it is
\* copied.
C11_SweepRetriesFailedCluster ==
    /\ [](InDoCow(Sweep) =>
            /\ cow[Sweep].sector_num = run.start * BACKUP_SECTORS_PER_CLUSTER
            /\ cow[Sweep].nb_sectors = 1)
    /\ [](BitmapLive => \A c \in DOMAIN bitmap : c < run.start => bitmap[c] = 1)
    /\ [][/\ (pc[Sweep] = "ret" /\ cow[Sweep].ret < 0 /\ SweepAction # "report") =>
                /\ run'.start = run.start
                /\ run'.ret = cow[Sweep].ret
                /\ IF cancelled THEN run'.exit = "cancelled"
                   ELSE pc'[Sweep] = "sleep" /\ run'.exit = "none"
          /\ (pc[Sweep] # "run_init" /\ run'.start # run.start) =>
                /\ run'.start = run.start + 1
                /\ pc[Sweep] = "ret" /\ cow[Sweep].ret >= 0]_vars

\* After a failed copy of cluster 0 the sweep is reading cluster 0 again.
C11_Witness ==
    /\ run.ret < 0 /\ run.start = 0 /\ ~cancelled
    /\ pc[Sweep] = "read" /\ cow[Sweep].start = 0

\* -------------------------------------------------------------------- C12
\* C12: once the sweep holds flush_rwlock for writing, and ever after (bitmap
\* freed, target released, block_job_completed called), no backup_do_cow
\* invocation is in progress: the lock has no reader and the registry is
\* empty.  The sweep leaves its wait for the lock only when the last reader
\* has gone, and after the loop exit no new invocation begins.
C12_DrainBeforeFree ==
    /\ []((pc[Sweep] \in {"locked", "done"} \/ bitmap_state = "freed" \/ completed.called) =>
            /\ readers = 0
            /\ inflight_reqs = <<>>
            /\ \A p \in Procs : ~InDoCow(p))
    /\ [][/\ (pc[Sweep] = "wrlock_wait" /\ pc'[Sweep] # "wrlock_wait") =>
                (readers = 0 /\ \A i \in Writers : ~InDoCow(i))
          /\ pc[Sweep] \in {"wrlock_wait", "locked", "done"} =>
                \A p \in Procs : InDoCow(p)' => InDoCow(p)
          /\ bitmap_state = "freed" => bitmap' = bitmap]_vars

\* The loop has been left while two interceptors are still copying: the
\* sweep waits for the lock.
C12_Witness ==
    /\ pc[Sweep] = "wrlock_wait" /\ readers = 2
    /\ \A i \in Writers : pc[i] \in {"read", "write", "gate_wait"}

\* -------------------------------------------------------------------- C13
\* C13: block_job_completed is called at most once, and only by the sweep
\* holding the flush lock for writing, with the notifier removed and no
\* backup_do_cow in progress; backup_run ends only having called it; and
\* once the sweep loop has been left, for whichever reason, the call is
\* eventually made.
C13_CompletedExactlyOnce ==
    /\ [](/\ completed.calls <= 1
          /\ completed.called <=> completed.calls = 1
          /\ pc[Sweep] = "done" <=> completed.called
          /\ completed.called => (~notifier /\ readers = 0 /\ run.exit # "none"))
    /\ [][completed' # completed =>
             /\ pc[Sweep] = "locked" /\ cur = Sweep
             /\ ~notifier /\ writer /\ readers = 0
             /\ \A p \in Procs : ~InDoCow(p)
             /\ completed'.calls = completed.calls + 1]_vars
    /\ (run.exit \in {"complete", "cancelled", "report"}) ~> (completed.calls = 1)

\* The job completed after a loop exit by cancellation that had to wait for
\* an interceptor.
C13_Witness ==
    /\ completed.calls = 1 /\ run.exit = "cancelled"
    /\ \E i \in Writers : pc[i] \in {"submit", "written", "failed"} /\ bitmap # <<>>
                          /\ \E c \in DOMAIN bitmap : bitmap[c] = 1

\* -------------------------------------------------------------------- C14
\* The source policy needs I/O status and the source has none.
NeedsIostatus(cfg) ==
    cfg.on_source_error \in {"stop", "enospc"} /\ ~cfg.iostatus_enabled

\* Nothing of the state changes but the position of the sweep.
NoEffect ==
    /\ \A q \in Writers : pc'[q] = pc[q]
    /\ UNCHANGED <<devlen, source, target, on_source_error, on_target_error, speed, len,
                   offset, sectors_read, cancelled, paused, completed, bitmap, bitmap_state,
                   inflight_reqs, waitOn, readers, writer, notifier, cur, cow, run, wr,
                   events>>

\* C14 (as claimed): a call of backup_start whose source policy is stop or
\* enospc on a source without I/O status changes nothing but the outcome of
\* the call, and nothing happens afterwards; a call with any other arguments
\* creates the job with those arguments and enters backup_run.
C14_Original ==
    [][/\ (pc[Sweep] = "nojob" /\ pc'[Sweep] # "nojob") =>
             \E cfg \in StartConfigs :
                 /\ backup_start(cfg)
                 /\ IF NeedsIostatus(cfg)
                    THEN pc'[Sweep] = "rejected" /\ NoEffect
                    ELSE /\ pc'[Sweep] = "run_init" /\ cur' = Sweep
                         /\ on_source_error' = cfg.on_source_error
                         /\ on_target_error' = cfg.on_target_error
                         /\ speed' = cfg.speed
       /\ pc[Sweep] = "rejected" => UNCHANGED vars]_vars

\* C14 (amended): as claimed for the refused call: no job, no bitmap, no
\* notifier, no coroutine, nothing afterwards.  A call with any other
\* arguments passes the validation: it creates the job with those arguments
\* and enters backup_run if block_job_create returns a job, and has no effect
\* either if block_job_create returns NULL.
C14_StartValidation ==
    /\ [](pc[Sweep] \in {"rejected", "create_failed"} =>
            /\ bitmap_state = "none" /\ bitmap = <<>>
            /\ ~notifier /\ cur = NoProc
            /\ completed.calls = 0
            /\ \A p \in Procs : ~InDoCow(p))
    /\ [][/\ (pc[Sweep] = "nojob" /\ pc'[Sweep] # "nojob") =>
                \E cfg \in StartConfigs :
                    /\ backup_start(cfg)
                    /\ IF NeedsIostatus(cfg)
                       THEN pc'[Sweep] = "rejected" /\ NoEffect
                       ELSE \/ pc'[Sweep] = "create_failed" /\ NoEffect
                            \/ /\ pc'[Sweep] = "run_init" /\ cur' = Sweep
                               /\ on_source_error' = cfg.on_source_error
                               /\ on_target_error' = cfg.on_target_error
                               /\ speed' = cfg.speed
          /\ pc[Sweep] \in {"rejected", "create_failed"} => UNCHANGED vars]_vars

\* backup_start has refused its arguments.
C14_Witness ==
    /\ pc[Sweep] = "rejected"
    /\ bitmap_state = "none" /\ ~notifier /\ target = [c \in ClustersOf(devlen) |-> Unwritten]

\* -------------------------------------------------------------------- C15
\* C15 (as claimed): while a job exists its progress counter offset is at
\* most len, the source length backup_start recorded, and offset never
\* decreases.
C15_Original ==
    /\ [](pc[Sweep] \notin {"nojob", "rejected", "create_failed"} => offset <= len)
    /\ [][offset' >= offset]_vars

\* -------------------------------------------------------------------- C16
\* Invocation p has registered its request and every cluster of its range
\* already has its bit set.
AllCopied(p) ==
    /\ pc[p] = "getlength"
    /\ cow[p].start < cow[p].end
    /\ \A c \in cow[p].start .. (cow[p].end - 1) : c \in DOMAIN bitmap /\ bitmap[c] = 1

\* The rest of such an invocation issues no I/O and changes neither the
\* bitmap nor the target nor the counters.
NoCopyDone(p) ==
    /\ pc'[p] = "ret"
    /\ UNCHANGED <<bitmap, target, source, offset, sectors_read>>

\* C16 (as claimed): an invocation whose whole range already has its bits set
\* issues no I/O, changes no bit and no counter, and returns 0.
C16_Original ==
    [][\A p \in Procs :
          (AllCopied(p) /\ pc'[p] # "getlength") => (NoCopyDone(p) /\ cow'[p].ret = 0)]_vars

\* C16 (amended): an invocation whose whole range already has its bits set
\* issues no I/O and changes no bit and no counter; it returns 0 if its
\* length query succeeds, and the error of the length query if that fails.
C16_SkipsCopiedRange ==
    [][\A p \in Procs :
          (AllCopied(p) /\ pc'[p] # "getlength") =>
              /\ NoCopyDone(p)
              /\ events' = events => cow'[p].ret = 0
              /\ events' # events => (cow'[p].ret < 0 /\ cow'[p].ret \in bdrv_getlength)]_vars

\* An interceptor has registered a request for a cluster the sweep has
\* already copied.
C16_Witness ==
    \E i \in Writers :
        /\ AllCopied(i)
        /\ run.start > cow[i].start
        /\ target[cow[i].start] = Snapshot[cow[i].start]

\* -------------------------------------------------------------------- C17
\* The length of the source in sectors.
DevSectors == CDiv(devlen, BDRV_SECTOR_SIZE)

\* C17: every source read and every target write or write-zeroes in flight
\* for cluster c starts at sector c*128 and covers n = min(128, length in
\* sectors - c*128) sectors, at least one, and ends within the device.
C17_IoWithinDevice ==
    \A p \in Procs :
        pc[p] \in {"read", "write"} =>
            LET c == cow[p].start
                n == MIN(BACKUP_SECTORS_PER_CLUSTER, DevSectors - c * BACKUP_SECTORS_PER_CLUSTER)
            IN  /\ cow[p].io = <<c * BACKUP_SECTORS_PER_CLUSTER, n>>
                /\ cow[p].n = n
                /\ n >= 1
                /\ cow[p].io[1] + cow[p].io[2] <= DevSectors

\* The short final cluster is being written with exactly its sectors.
C17_Witness ==
    \E p \in Procs :
        /\ pc[p] = "write"
        /\ DevSectors % BACKUP_SECTORS_PER_CLUSTER = TailSectors
        /\ cow[p].io = <<DevSectors - TailSectors, TailSectors>>

\* -------------------------------------------------------------------- C18
\* On a source of length zero nothing is ever called, slept on or issued.
ZeroLengthIdle ==
    /\ pc[Sweep] \in {"nojob", "rejected", "create_failed", "run_init", "locked", "done"}
    /\ \A p \in Procs : ~InDoCow(p) /\ pc[p] # "ret" /\ cow[p] = NoCow
    /\ run.exit \in {"none", "complete"}
    /\ completed.called => completed.ret = 0

\* C18: for a source of length zero the sweep never calls backup_do_cow, never
\* sleeps and issues no I/O, and the started job reaches block_job_completed,
\* once, with the result 0.
C18_ZeroLengthCompletes ==
    /\ [](devlen = 0 => ZeroLengthIdle)
    /\ (devlen = 0 /\ pc[Sweep] = "run_init") ~> (completed.calls = 1 /\ completed.ret = 0)

\* The job on an empty source has completed with 0.
C18_Witness ==
    /\ devlen = 0
    /\ pc[Sweep] = "done"
    /\ completed.calls = 1
    /\ completed.ret = 0
    /\ run.exit = "complete"

\* -------------------------------------------------------------------- C19
\* No guest write has reached the all-zero source.
SourceAllZero == DOMAIN source # {} /\ \A c \in DOMAIN source : source[c] = "zero"

\* C19: the target operation in flight for a cluster is a write-zeroes if the
\* data read from the source is all zero and a normal write of that data
\* otherwise, over the sectors that were read. On an all-zero source that no
\* guest write has reached, every target operation is a write-zeroes and the
\* target holds nothing but zeroes.
C19_ZeroDetection ==
    /\ \A p \in Procs :
          pc[p] = "write" =>
              /\ cow[p].op = IF cow[p].buf = "zero" THEN "write_zeroes" ELSE "writev"
              /\ cow[p].buf \in {"zero", "A", GuestData}
              /\ cow[p].io = <<cow[p].start * BACKUP_SECTORS_PER_CLUSTER, cow[p].n>>
    /\ SourceAllZero =>
          /\ \A p \in Procs : pc[p] = "write" => cow[p].op = "write_zeroes"
          /\ \A c \in DOMAIN target : target[c] \in {Unwritten, "zero"}

\* On an all-zero source one cluster has been zeroed on the target and a
\* write-zeroes for another is in flight.
C19_Witness ==
    /\ SourceAllZero
    /\ \E p \in Procs :
          /\ pc[p] = "write"
          /\ cow[p].op = "write_zeroes"
          /\ \E c \in DOMAIN target : c # cow[p].start /\ target[c] = "zero" /\ bitmap[c] = 1

\* -------------------------------------------------------------------- C20
\* Coroutine p has a source read or a target write in flight.
InIo(p) == pc[p] \in {"read", "write"}

\* The request of coroutine q is registered as in flight.
Registered(q) == \E k \in 1..Len(inflight_reqs) : inflight_reqs[k].owner = q

\* C20 (as claimed): an invocation that has waited at the gate for another
\* invocation targeting cluster c never reads or writes c itself.
C20_Original ==
    \A p \in Procs : InIo(p) => cow[p].start \notin cow[p].waited

\* C20 (amended): of the invocations that target cluster c at most one at a
\* time has I/O for c in flight, and only while the bit of c is clear; the
\* other one stays suspended at the gate while the request it found is
\* registered, and is made runnable by the step that ends that request; so it
\* skips c if the first invocation copied it, and copies c itself if the first
\* invocation failed.
C20_OneCopierAtATime ==
    /\ [](\A p, q \in Procs :
             (p # q /\ InIo(p) /\ InIo(q)) => cow[p].start # cow[q].start)
    /\ [](\A p \in Procs : InIo(p) => bitmap[cow[p].start] = 0)
    /\ [](\A p \in Procs :
             pc[p] = "gate_wait" =>
                 \E k \in 1..Len(inflight_reqs) :
                     /\ inflight_reqs[k].owner = waitOn[p]
                     /\ Overlaps(cow[p].start, cow[p].end, inflight_reqs[k]))
    /\ [][\A p \in Procs :
             (pc[p] = "gate_wait" /\ pc'[p] # "gate_wait") =>
                 /\ pc'[p] = "gate_ready"
                 /\ Registered(waitOn[p])
                 /\ ~Registered(waitOn[p])']_vars

\* One invocation has I/O in flight for a cluster and another one, targeting
\* the same cluster, is suspended on it at the gate.
C20_Witness ==
    \E p, q \in Procs :
        /\ p # q
        /\ InIo(q)
        /\ pc[p] = "gate_wait"
        /\ waitOn[p] = q
        /\ cow[q].start \in cow[p].waited

\* -------------------------------------------------------------------- C21
\* C21 (as claimed): a failed length query never lets the job complete with
\* success while clusters are uncopied: a job that was not cancelled and
\* completed with 0 has copied every cluster of the source.
C21_Original ==
    (completed.called /\ completed.ret = 0 /\ ~cancelled) =>
        \A c \in ClustersOf(devlen) : target[c] # Unwritten


\* -------------------------------------------------------------------- C22
\* In this step the sweep's backup_do_cow returns, from position `from`.
SweepReturnsFrom(from) == pc[Sweep] \in from /\ pc'[Sweep] = "ret"

\* C22: when the sweep's backup_do_cow returns an error, error_is_read has
\* been written: true after a failed length query or source read, false after
\* a failed target write; when it returns success the variable is left as it
\* was; and nothing else writes it: no step of an interceptor's backup_do_cow
\* (which passes NULL) and no successful return changes it.
C22_ErrorIsReadOnlyOnError ==
    [][/\ (SweepReturnsFrom({"getlength", "read"}) /\ cow'[Sweep].ret < 0) =>
              run'.error_is_read = "true"
       /\ (SweepReturnsFrom({"write"}) /\ cow'[Sweep].ret < 0) =>
              run'.error_is_read = "false"
       /\ (SweepReturnsFrom({"getlength", "read", "write", "gate_ready"})
             /\ cow'[Sweep].ret >= 0) =>
              run'.error_is_read = run.error_is_read
       /\ (run'.error_is_read \in {"true", "false"}
             /\ run'.error_is_read # run.error_is_read) =>
              /\ SweepReturnsFrom({"getlength", "read", "write"})
              /\ cow'[Sweep].ret < 0]_vars

\* The sweep's backup_do_cow has returned a write error, tagged write-side.
C22_Witness ==
    /\ pc[Sweep] = "ret"
    /\ cow[Sweep].ret < 0
    /\ run.error_is_read = "false"


\* -------------------------------------------------------------------- C23
\* The first cluster of the range of p's invocation.
FirstCluster(p) == CDiv(cow[p].sector_num, BACKUP_SECTORS_PER_CLUSTER)

\* In this step the I/O that p has in flight fails and p's backup_do_cow returns.
FailsInIo(p) == InIo(p) /\ pc'[p] = "ret" /\ cow'[p].ret < 0

\* C23: an invocation has I/O in flight for cluster k only with the bit of
\* every earlier cluster of its range set, so it never goes on past a cluster
\* it failed on; and the step in which its I/O for cluster k fails returns
\* from backup_do_cow at once, leaving the bitmap, the counters and the target
\* as they are: the bits and counts of the clusters before k are kept, those
\* of k and of the clusters after k are not touched, and no further I/O is
\* issued.
C23_FailureStopsLoop ==
    /\ [](\A p \in Procs :
             InIo(p) => \A c \in FirstCluster(p) .. (cow[p].start - 1) : bitmap[c] = 1)
    /\ [][\A p \in Procs :
             FailsInIo(p) =>
                 /\ bitmap' = bitmap
                 /\ bitmap[cow[p].start] = 0
                 /\ offset' = offset
                 /\ sectors_read' = sectors_read
                 /\ target' = target
                 /\ \A q \in Procs : ~InIo(q) => ~InIo(q)']_vars

\* A two-cluster invocation of an interceptor has copied its first cluster
\* and has failed on its second one.
C23_Witness ==
    \E i \in Writers :
        /\ pc[i] = "ret"
        /\ cow[i].ret < 0
        /\ ClustersTouched(wr[i].sector_num, wr[i].nb_sectors) = {0, 1}
        /\ pc[Sweep] = "sleep" /\ run.start = 0
        /\ bitmap[0] = 1 /\ bitmap[1] = 0
        /\ offset = BACKUP_CLUSTER_SIZE


\* -------------------------------------------------------------------- C24
\* Coroutine p is in wait_for_overlapping_requests.
AtGate(p) == pc[p] \in {"gate", "gate_wait", "gate_ready"}

\* Coroutine q is in backup_do_cow between cow_request_begin and cow_request_end.
PastGate(q) == pc[q] \in {"getlength", "loop", "read", "write", "set", "out"}

\* C24: a coroutine in wait_for_overlapping_requests has no request of its
\* own registered, and the request it is suspended on is registered by an
\* invocation that is past the gate; and, every issued I/O returning, every
\* backup_do_cow invocation returns and the write lock the sweep waits for is
\* granted.
C24_GateCannotDeadlock ==
    /\ [](\A p \in Procs :
             /\ AtGate(p) => ~Registered(p)
             /\ pc[p] = "gate_wait" => Registered(waitOn[p]) /\ PastGate(waitOn[p]))
    /\ \A p \in Procs : InDoCow(p) ~> ~InDoCow(p)
    /\ (pc[Sweep] = "wrlock_wait") ~> (pc[Sweep] = "done")

\* Two interceptors are suspended at the gate on the request of the sweep,
\* which has I/O in flight.
C24_Witness ==
    /\ InIo(Sweep)
    /\ \A i \in Writers : pc[i] = "gate_wait" /\ waitOn[i] = Sweep


\* -------------------------------------------------------------------- C25
\* The registered requests that overlap the range of p's invocation, by position.
OverlappingNow(p) == OverlapAt(inflight_reqs, cow[p].start, cow[p].end)

\* C25: no coroutine is suspended on a request that is not registered; the
\* step that removes the request of q makes every coroutine suspended on it
\* runnable; and a restarted coroutine that runs again leaves the gate only if
\* no registered request overlaps its range, and otherwise is suspended on
\* the first overlapping request from the head of the registry.
C25_EndWakesAllWaiters ==
    /\ [](\A p \in Procs : pc[p] = "gate_wait" => Registered(waitOn[p]))
    /\ [][\A q \in Procs :
             (Registered(q) /\ ~Registered(q)') =>
                 \A p \in Procs :
                     (pc[p] = "gate_wait" /\ waitOn[p] = q) => pc'[p] = "gate_ready"]_vars
    /\ [][\A p \in Procs :
             (pc[p] = "gate_ready" /\ pc'[p] # "gate_ready") =>
                 IF OverlappingNow(p) = {}
                 THEN pc'[p] = "getlength" /\ Registered(p)'
                 ELSE /\ pc'[p] = "gate_wait"
                      /\ waitOn'[p] = inflight_reqs[Min(OverlappingNow(p))].owner
                      /\ ~Registered(p)']_vars

\* An interceptor that waited for the sweep's request on cluster 0 was
\* restarted, scanned again and is now suspended on the request of another
\* interceptor for cluster 1.
C25_Witness ==
    \E i, j \in Writers :
        /\ i # j
        /\ pc[i] = "gate_wait"
        /\ waitOn[i] = j
        /\ ~Registered(Sweep)
        /\ ClustersTouched(wr[j].sector_num, wr[j].nb_sectors) = {1}
        /\ cow[i].waited = {0, 1}


\* -------------------------------------------------------------------- C26
\* C26: the sweep enters backup_do_cow only in the step in which
\* block_job_sleep_ns returns, with the job not cancelled, for the cluster at
\* its loop position; it goes to sleep only from the start of backup_run or
\* from a return of backup_do_cow (a success or a failure to be retried), with
\* the job not cancelled; with a speed set the sleep is for the rate limiter's
\* delay and sectors_read is reset, with speed 0 the sleep is for 0 ns and
\* sectors_read is kept; when the sleep returns the sweep calls backup_do_cow
\* unless the job was cancelled, and it takes no step while it sleeps.
C26_SleepBeforeEveryCopy ==
    /\ [](pc[Sweep] = "sleep" =>
             run.delay_ns \in (IF speed = 0 THEN {0} ELSE ratelimit_calculate_delay))
    /\ [][/\ (~InDoCow(Sweep) /\ InDoCow(Sweep)') =>
                 /\ pc[Sweep] = "sleep"
                 /\ ~cancelled
                 /\ cow'[Sweep].sector_num = run.start * BACKUP_SECTORS_PER_CLUSTER
                 /\ cow'[Sweep].nb_sectors = 1
          /\ (pc[Sweep] # "sleep" /\ pc'[Sweep] = "sleep") =>
                 /\ pc[Sweep] \in {"run_init", "ret"}
                 /\ ~cancelled
                 /\ sectors_read' = IF speed = 0 THEN sectors_read ELSE 0
          /\ (pc[Sweep] = "sleep" /\ pc'[Sweep] # "sleep") =>
                 IF cancelled
                 THEN ~InDoCow(Sweep)' /\ run'.exit = "cancelled"
                 ELSE InDoCow(Sweep)'
          /\ (pc[Sweep] = "sleep" /\ pc'[Sweep] = "sleep") => run' = run]_vars

\* With a speed set, the sweep sleeps for the rest of the slice before it
\* retries a cluster whose copy failed.
C26_Witness ==
    /\ pc[Sweep] = "sleep"
    /\ speed # 0
    /\ run.delay_ns = SLICE_TIME
    /\ run.ret < 0
    /\ sectors_read = 0


\* -------------------------------------------------------------------- C27
\* The clusters that hold a sector of [sector_num, sector_num + nb_sectors).
ClustersHolding(sector_num, nb_sectors) ==
    { x \div BACKUP_SECTORS_PER_CLUSTER : x \in sector_num .. (sector_num + nb_sectors - 1) }

\* Requests around the first cluster boundary: aligned and unaligned at either end.
BoundaryRequests == { <<sn, nb>> : sn \in {0, 1, 127, 128}, nb \in {1, 127, 128, 129} }

\* The cluster range backup_do_cow computes for sector_num and nb_sectors.
RangeComputed(sector_num, nb_sectors) ==
    LET r == do_cow_enter([St EXCEPT !.cow[Sweep].sector_num = sector_num,
                                     !.cow[Sweep].nb_sectors = nb_sectors], Sweep).cow[Sweep]
    IN  r.start .. (r.end - 1)

\* C27: the clusters an invocation considers, from the first one of its range
\* to the one before end, are exactly the clusters that hold a sector of its
\* request, and its loop position stays within them; the range computed for
\* requests around a cluster boundary is the set of clusters they intersect;
\* and the sweep's one-sector request for cluster c has I/O in flight for c
\* only, over the whole of cluster c.
C27_RangeIsClustersIntersected ==
    /\ \A p \in Procs :
          (AtGate(p) \/ PastGate(p)) =>
              /\ FirstCluster(p) .. (cow[p].end - 1)
                    = ClustersHolding(cow[p].sector_num, cow[p].nb_sectors)
              /\ FirstCluster(p) <= cow[p].start /\ cow[p].start <= cow[p].end
    /\ pc[Sweep] = "run_init" =>
          \A r \in BoundaryRequests : RangeComputed(r[1], r[2]) = ClustersHolding(r[1], r[2])
    /\ InIo(Sweep) =>
          /\ cow[Sweep].nb_sectors = 1
          /\ cow[Sweep].start = run.start
          /\ cow[Sweep].end = run.start + 1
          /\ cow[Sweep].io = <<run.start * BACKUP_SECTORS_PER_CLUSTER,
                               MIN(BACKUP_SECTORS_PER_CLUSTER,
                                   DevSectors - run.start * BACKUP_SECTORS_PER_CLUSTER)>>

\* The sweep's one-sector request has a whole cluster in flight while an
\* interceptor whose request straddles the cluster boundary considers both
\* clusters.
C27_Witness ==
    /\ InIo(Sweep)
    /\ cow[Sweep].io[2] = BACKUP_SECTORS_PER_CLUSTER
    /\ \E i \in Writers :
          /\ AtGate(i)
          /\ cow[i].sector_num % BACKUP_SECTORS_PER_CLUSTER # 0
          /\ cow[i].end - cow[i].start = 2


\* -------------------------------------------------------------------- C28
\* The sweep's backup_do_cow has returned an error and the sweep handles it
\* in this step.
SweepHandlesError == pc[Sweep] = "ret" /\ cow[Sweep].ret < 0 /\ pc'[Sweep] # "ret"

\* The side that failed: in the model the length query and the source read
\* fail with EIO and the target write fails with ENOSPC.
ReadSideFailed == cow[Sweep].ret = -EIO

\* The action of the policy of the side that failed.
ActionOfFailedSide ==
    block_job_error_action(IF ReadSideFailed THEN on_source_error ELSE on_target_error,
                           -cow[Sweep].ret)

\* C28: when the sweep handles a failure of its backup_do_cow, the value it
\* reads from error_is_read names the side that failed, and what it does is
\* the action of that side's policy for the error: on report it leaves the
\* loop with the error, on stop it pauses the job and goes on to retry the
\* cluster, on ignore it goes on to retry the cluster; the retry starts with
\* the sleep unless the job is cancelled.
C28_PolicyOfFailedSide ==
    [][SweepHandlesError =>
          /\ run.error_is_read = IF ReadSideFailed THEN "true" ELSE "false"
          /\ (run'.exit = "report") = (ActionOfFailedSide = "report")
          /\ paused' = (paused \/ ActionOfFailedSide = "stop")
          /\ run'.ret = cow[Sweep].ret
          /\ ActionOfFailedSide # "report" =>
                 /\ run'.start = run.start
                 /\ IF cancelled THEN run'.exit = "cancelled" ELSE pc'[Sweep] = "sleep"]_vars

\* With on_source_error = stop and on_target_error = ignore, a read-side
\* failure has paused the job before the retry.
C28_Witness ==
    /\ on_source_error = "stop"
    /\ on_target_error = "ignore"
    /\ run.ret = -EIO
    /\ paused
    /\ pc[Sweep] = "sleep"


\* -------------------------------------------------------------------- C29
\* C29 (as claimed): in the step in which the source read or the target write
\* of an invocation fails for cluster c, the bit of c is left 0, so that a
\* later invocation covering c copies it.
C29_Original ==
    [][\A p \in Procs : FailsInIo(p) => bitmap'[cow[p].start] = 0]_vars


\* -------------------------------------------------------------------- C30
\* C30: an invocation holds a bounce buffer exactly while it has I/O in
\* flight, and then exactly one; at the gate, at the length query, when it has
\* returned (with success or after a failed length query, read or write) and
\* when it is not running, it holds none; and it allocates only in a step that
\* submits the read of a cluster whose bit is clear, having none before.
C30_OneBufferPerInvocation ==
    /\ [](\A p \in Procs :
             /\ cow[p].bounce_buffer = InIo(p)
             /\ cow[p].allocated = IF InIo(p) THEN 1 ELSE 0)
    /\ [][\A p \in Procs :
             cow'[p].allocated > cow[p].allocated =>
                 /\ cow[p].allocated = 0
                 /\ pc'[p] = "read"
                 /\ bitmap[cow'[p].start] = 0]_vars

\* An interceptor that has copied the first cluster of its two-cluster range
\* has the read or write of the second one in flight with its one buffer.
C30_Witness ==
    \E i \in Writers :
        /\ InIo(i)
        /\ cow[i].start = FirstCluster(i) + 1
        /\ bitmap[FirstCluster(i)] = 1
        /\ pc[Sweep] = "sleep" /\ run.start = 0
        /\ cow[i].allocated = 1


\* -------------------------------------------------------------------- C31
\* C31: while the bitmap exists, every cluster below the sweep's loop position
\* has its bit set; and the loop position changes only by one, in the step in
\* which the sweep handles a successful return of its backup_do_cow for the
\* cluster at the position, whose bit is then set.
C31_SweepCursor ==
    /\ [](BitmapLive => \A c \in 0 .. (run.start - 1) : bitmap[c] = 1)
    /\ [][run'.start # run.start =>
             /\ run'.start = run.start + 1
             /\ pc[Sweep] = "ret"
             /\ cow[Sweep].ret = 0
             /\ bitmap[run.start] = 1]_vars

\* With no guest write at all, the sweep has moved on to cluster 1 after an
\* attempt on cluster 0 failed and was retried.
C31_Witness ==
    /\ pc[Sweep] = "sleep"
    /\ run.start = 1
    /\ run.end = 2
    /\ len = devlen
    /\ bitmap[0] = 1
    /\ events >= 1
    /\ \A i \in Writers : pc[i] = "idle"


\* -------------------------------------------------------------------- C32
\* The sector count of cluster c of the source.
SectorsOfCluster(c) ==
    MIN(BACKUP_SECTORS_PER_CLUSTER, DevSectors - c * BACKUP_SECTORS_PER_CLUSTER)

\* The clusters whose bit is set.
ClustersDone == {c \in DOMAIN bitmap : bitmap[c] = 1}

RECURSIVE SumSectors(_)
SumSectors(S) ==
    IF S = {} THEN 0
    ELSE LET c == CHOOSE x \in S : TRUE
         IN  SectorsOfCluster(c) + SumSectors(S \ {c})

\* offset is 512 times the sectors of the clusters whose bit is set.
OffsetCountsDone == offset = BDRV_SECTOR_SIZE * SumSectors(ClustersDone)

\* C32 (as claimed): in every state offset is 512 times the sum of the sector
\* counts of the clusters whose bit is set, each counted once, and offset
\* equals len when every bit of the bitmap is set.
C32_Original ==
    /\ OffsetCountsDone
    /\ (BitmapLive /\ \A c \in DOMAIN bitmap : bitmap[c] = 1) => offset = len


\* -------------------------------------------------------------------- C33
\* The number of requests that invocation q has in the registry.
RequestsOf(q) ==
    Cardinality({k \in 1..Len(inflight_reqs) : inflight_reqs[k].owner = q})

\* The invocations of backup_do_cow in progress.
InProgress == {p \in Procs : InDoCow(p)}

\* C33: the flush lock has one shared hold for each backup_do_cow invocation
\* in progress and the registry one request for each invocation past the gate,
\* none for the others; the step in which an invocation returns, with success
\* or with a failure, takes its request out of the registry and lowers the
\* shared holds by exactly one; so with no invocation in progress the registry
\* is empty and the lock has no shared holder.
C33_ExitReleasesOnce ==
    /\ [](/\ readers = Cardinality(InProgress)
          /\ \A q \in Procs : RequestsOf(q) = IF PastGate(q) THEN 1 ELSE 0
          /\ InProgress = {} => inflight_reqs = <<>> /\ readers = 0)
    /\ [][\A p \in Procs :
             InDoCow(p) /\ ~InDoCow(p)' =>
                 /\ pc'[p] = "ret"
                 /\ RequestsOf(p) = 1
                 /\ RequestsOf(p)' = 0
                 /\ Len(inflight_reqs') = Len(inflight_reqs) - 1
                 /\ readers' = readers - 1]_vars

\* An invocation has returned a failure and none is in progress: the registry
\* is empty and the lock has no shared holder.
C33_Witness ==
    /\ \E p \in Procs : pc[p] = "ret" /\ cow[p].ret < 0
    /\ InProgress = {}
    /\ inflight_reqs = <<>>
    /\ readers = 0

====
